---------------------------- MODULE Spec2Model ----------------------------
(***************************************************************************)
(* Model of the scanning engine of letieu/trade-bot.                       *)
(*                                                                         *)
(*   - the candle rules (strategies.ThreeCandleReversal,                   *)
(*     strategies.ConsecutiveCandles) and Bot.checkSymbol are pure         *)
(*     functions of the fetched series, the clock and the rule list; they  *)
(*     are operators, exercised by SpecCheck;                              *)
(*   - Bot.scan / Bot.scanInterval and the telegram sender are a           *)
(*     concurrent state machine, exercised by Spec.                        *)
(*                                                                         *)
(* Time is counted in minutes since the Unix epoch (the code uses          *)
(* milliseconds; every duration the code knows is a whole number of        *)
(* minutes).  Pattern names are written in ASCII; their byte order is      *)
(* kept by StringBytes.                                                    *)
(***************************************************************************)
EXTENDS Integers, Sequences, FiniteSets, Bags, TLC

(***************************************************************************)
(* Bounds of the model.                                                    *)
(***************************************************************************)
MaxLen == 6          \* longest series the candle source returns
MaxMinCount == 5     \* largest MinCount of a ConsecutiveCandles rule
MaxTick == 1         \* clock values NowBase .. NowBase + MaxTick

(***************************************************************************)
(* Helpers on sequences.                                                   *)
(***************************************************************************)
Last(s) == s[Len(s)]

Front(s) == SubSeq(s, 1, Len(s) - 1)

LastN(s, n) == SubSeq(s, Len(s) - n + 1, Len(s))

RECURSIVE SeqToBag(_)
SeqToBag(s) == IF s = <<>> THEN EmptyBag ELSE SetToBag({Last(s)}) (+) SeqToBag(Front(s))

RECURSIVE Flatten(_)
Flatten(ss) == IF ss = <<>> THEN <<>> ELSE Head(ss) \o Flatten(Tail(ss))

(***************************************************************************)
(* types.ParseInterval: the duration of an interval label, in minutes;     *)
(* ok = FALSE is the "unsupported interval" error.                         *)
(***************************************************************************)
ParseInterval(interval) ==
    CASE interval = "1m"  -> [ok |-> TRUE, d |-> 1]
      [] interval = "3m"  -> [ok |-> TRUE, d |-> 3]
      [] interval = "5m"  -> [ok |-> TRUE, d |-> 5]
      [] interval = "15m" -> [ok |-> TRUE, d |-> 15]
      [] interval = "30m" -> [ok |-> TRUE, d |-> 30]
      [] interval = "1h"  -> [ok |-> TRUE, d |-> 60]
      [] interval = "2h"  -> [ok |-> TRUE, d |-> 2 * 60]
      [] interval = "4h"  -> [ok |-> TRUE, d |-> 4 * 60]
      [] interval = "6h"  -> [ok |-> TRUE, d |-> 6 * 60]
      [] interval = "12h" -> [ok |-> TRUE, d |-> 12 * 60]
      [] interval = "1d"  -> [ok |-> TRUE, d |-> 24 * 60]
      [] interval = "1w"  -> [ok |-> TRUE, d |-> 7 * 24 * 60]
      [] OTHER            -> [ok |-> FALSE, d |-> 0]

(***************************************************************************)
(* time.Time.Truncate rounds down to a multiple of d counted from Go's     *)
(* zero time (0001-01-01 00:00 UTC, a Monday), which lies 719162 days      *)
(* before the Unix epoch.                                                  *)
(***************************************************************************)
ZeroTimeOffset == 719162 * 24 * 60

Truncate(t, d) == t - ((t + ZeroTimeOffset) % d)

(***************************************************************************)
(* types.Candle and its colour.                                            *)
(***************************************************************************)
ColorGreen == "green"

ColorRed == "red"

ColorStrict(c) == IF c.Close > c.Open THEN ColorGreen ELSE ColorRed

Color(c) == IF c.Close >= c.Open THEN ColorGreen ELSE ColorRed

(***************************************************************************)
(* The rules.  A rule is a record: kind "TCR" is ThreeCandleReversal,      *)
(* kind "CC" is ConsecutiveCandles with its MinCount.                      *)
(***************************************************************************)
NewThreeCandleReversal == [kind |-> "TCR", MinCount |-> 0]

NewConsecutiveCandles(minCount) == [kind |-> "CC", MinCount |-> minCount]

GetName(s) == IF s.kind = "TCR" THEN "DAO CHIEU" ELSE "TANG GIAM LIEN TUC"

GetRequiredCandles(s) == IF s.kind = "TCR" THEN 5 ELSE s.MinCount + 1

\* the backward walk of countConsecutive from index i, run so far = count
RECURSIVE CountBack(_, _, _, _)
CountBack(candles, i, targetColor, count) ==
    IF i >= 1 /\ Color(candles[i]) = targetColor
    THEN CountBack(candles, i - 1, targetColor, count + 1)
    ELSE count

countConsecutiveWholeSeries(candles) ==
    Cardinality({i \in 1..Len(candles) : Color(candles[i]) = Color(Last(candles))})

countConsecutiveSkipsOne(candles) ==
    IF Len(candles) = 0 THEN 0
    ELSE CountBack(candles, Len(candles) - 2, Color(Last(candles)), 1)

countConsecutive(candles) ==
    IF Len(candles) = 0 THEN 0
    ELSE CountBack(candles, Len(candles) - 1, Color(Last(candles)), 1)

ThreeCandleReversalMatchNoFlip(candles) ==
    IF Len(candles) < 4 THEN [matched |-> FALSE, err |-> TRUE]
    ELSE LET lastFour == LastN(candles, 4)
             colors == [i \in 1..4 |-> Color(lastFour[i])]
         IN [matched |-> colors[1] = colors[2] /\ colors[2] = colors[3], err |-> FALSE]

ThreeCandleReversalMatchAnyFlip(candles) ==
    IF Len(candles) < 4 THEN [matched |-> FALSE, err |-> TRUE]
    ELSE LET lastFour == LastN(candles, 4)
             colors == [i \in 1..4 |-> Color(lastFour[i])]
         IN [matched |-> colors[4] # colors[3], err |-> FALSE]

ThreeCandleReversalMatch(candles) ==
    IF Len(candles) < 4 THEN [matched |-> FALSE, err |-> TRUE]
    ELSE LET lastFour == LastN(candles, 4)
             colors == [i \in 1..4 |-> Color(lastFour[i])]
             firstThreeSame == colors[1] = colors[2] /\ colors[2] = colors[3]
             lastIsOpposite == colors[4] # colors[3]
         IN [matched |-> firstThreeSame /\ lastIsOpposite, err |-> FALSE]

ConsecutiveCandlesMatchUnguarded(s, candles) ==
    [matched |-> countConsecutive(candles) >= s.MinCount, err |-> FALSE]

ConsecutiveCandlesMatch(s, candles) ==
    IF Len(candles) < s.MinCount THEN [matched |-> FALSE, err |-> TRUE]
    ELSE [matched |-> countConsecutive(candles) >= s.MinCount, err |-> FALSE]

Match(s, candles) ==
    IF s.kind = "TCR" THEN ThreeCandleReversalMatch(candles)
    ELSE ConsecutiveCandlesMatch(s, candles)

\* GetMetadata()["consecutive_count"], 0 when the rule carries none
GetMetadata(s, candles) == IF s.kind = "CC" THEN countConsecutive(candles) ELSE 0


(***************************************************************************)
(* Bot.checkSymbol.                                                        *)
(***************************************************************************)
RECURSIVE MaxRequiredFrom(_, _, _)
MaxRequiredFrom(strats, i, maxRequired) ==
    IF i > Len(strats) THEN maxRequired
    ELSE MaxRequiredFrom(strats, i + 1,
            IF GetRequiredCandles(strats[i]) > maxRequired
            THEN GetRequiredCandles(strats[i]) ELSE maxRequired)

MaxRequiredFirstOnly(strats) == GetRequiredCandles(strats[1])

MaxRequired(strats) == MaxRequiredFrom(strats, 1, 0)

\* lines 240-259: the last candle goes iff it is the bar open at nowv
TrimOpenCandleAlways(candles, nowv, d) ==
    IF Len(candles) > 0 THEN Front(candles) ELSE candles

TrimOpenCandleNever(candles, nowv, d) == candles

TrimOpenCandleRecent(candles, nowv, d) ==
    IF Len(candles) > 0 /\ Last(candles).Timestamp >= Truncate(nowv, d) - d
    THEN Front(candles)
    ELSE candles

TrimOpenCandle(candles, nowv, d) ==
    IF Len(candles) > 0 /\ Last(candles).Timestamp = Truncate(nowv, d)
    THEN Front(candles)
    ELSE candles

\* lines 280-306: the Signal built for a rule that matched
MakeSignalBullish(symbol, interval, s, candles, nowv) ==
    [Symbol |-> symbol, Interval |-> interval, Pattern |-> GetName(s), Trend |-> "bullish",
     Price |-> Last(candles).Close, Timestamp |-> nowv, Candles |-> LastN(candles, 4),
     ConsecutiveCount |-> GetMetadata(s, candles)]

MakeSignalWholeWindow(symbol, interval, s, candles, nowv) ==
    [Symbol |-> symbol, Interval |-> interval, Pattern |-> GetName(s),
     Trend |-> IF Color(Last(candles)) = ColorRed THEN "bearish" ELSE "bullish",
     Price |-> Last(candles).Close, Timestamp |-> nowv, Candles |-> candles,
     ConsecutiveCount |-> GetMetadata(s, candles)]

MakeSignal(symbol, interval, s, candles, nowv) ==
    LET lastCandles == LastN(candles, 4)
        lastCandle == Last(candles)
    IN [Symbol |-> symbol,
        Interval |-> interval,
        Pattern |-> GetName(s),
        Trend |-> IF Color(Last(lastCandles)) = ColorRed THEN "bearish" ELSE "bullish",
        Price |-> lastCandle.Close,
        Timestamp |-> nowv,
        Candles |-> lastCandles,
        ConsecutiveCount |-> GetMetadata(s, candles)]

\* lines 269-310: the loop over b.strategies, from rule i on
RECURSIVE CheckStrategiesFirstOnly(_, _, _, _, _, _)
CheckStrategiesFirstOnly(strats, i, symbol, interval, candles, nowv) ==
    IF i > Len(strats) THEN <<>>
    ELSE LET m == Match(strats[i], candles)
         IN IF m.err \/ ~m.matched
            THEN CheckStrategiesFirstOnly(strats, i + 1, symbol, interval, candles, nowv)
            ELSE <<MakeSignal(symbol, interval, strats[i], candles, nowv)>>

RECURSIVE CheckStrategiesStopOnError(_, _, _, _, _, _)
CheckStrategiesStopOnError(strats, i, symbol, interval, candles, nowv) ==
    IF i > Len(strats) THEN <<>>
    ELSE LET m == Match(strats[i], candles)
         IN IF m.err THEN <<>>
            ELSE IF ~m.matched
            THEN CheckStrategiesStopOnError(strats, i + 1, symbol, interval, candles, nowv)
            ELSE <<MakeSignal(symbol, interval, strats[i], candles, nowv)>>
                 \o CheckStrategiesStopOnError(strats, i + 1, symbol, interval, candles, nowv)

RECURSIVE CheckStrategies(_, _, _, _, _, _)
CheckStrategies(strats, i, symbol, interval, candles, nowv) ==
    IF i > Len(strats) THEN <<>>
    ELSE LET m == Match(strats[i], candles)
             rest == CheckStrategies(strats, i + 1, symbol, interval, candles, nowv)
         IN IF m.err \/ ~m.matched
            THEN rest
            ELSE <<MakeSignal(symbol, interval, strats[i], candles, nowv)>> \o rest

\* lines 261-264: the rules are asked only when 4 closed candles are left
EnoughClosedCandlesOrNone(candles) == Len(candles) >= 4 \/ Len(candles) = 0

EnoughClosedCandles(candles) == Len(candles) >= 4

\* fetch is what provider.GetCandles returned: [err, candles].  The result
\* records what the call asked for, how it ended, the window handed to the
\* rules and the signals returned.
CheckSymbol(symbol, interval, fetch, nowv, strats) ==
    LET maxRequired == MaxRequired(strats)
        p == ParseInterval(interval)
        none == [requested |-> maxRequired, window |-> <<>>, signals |-> <<>>]
    IN IF fetch.err
       THEN none @@ [outcome |-> "fetch_error"]
       ELSE IF Len(fetch.candles) > 0 /\ ~p.ok
       THEN none @@ [outcome |-> "parse_error"]
       ELSE LET candles == IF Len(fetch.candles) > 0
                           THEN TrimOpenCandle(fetch.candles, nowv, p.d)
                           ELSE fetch.candles
            IN IF ~EnoughClosedCandles(candles)
               THEN [requested |-> maxRequired, window |-> candles,
                     signals |-> <<>>, outcome |-> "not_enough"]
               ELSE [requested |-> maxRequired, window |-> candles,
                     signals |-> CheckStrategies(strats, 1, symbol, interval, candles, nowv),
                     outcome |-> "evaluated"]

(***************************************************************************)
(* Inputs of the rule and checkSymbol checks.                              *)
(***************************************************************************)
\* 2026-01-05 00:00 UTC, a Monday, in minutes since the epoch
NowBase == 20458 * 24 * 60

Clock == {NowBase - 1 + t : t \in 0..MaxTick}

\* (open, close) of a red candle, a green candle and a doji
Shapes == {<<2, 1>>, <<1, 2>>, <<1, 1>>}

\* the candle source spaces its bars by the interval; an unsupported label
\* has no duration and the bars are spaced by an hour
Spacing(interval) == IF ParseInterval(interval).ok THEN ParseInterval(interval).d ELSE 60

MkSeries(shapes, lastTs, d) ==
    [i \in 1..Len(shapes) |->
        [Timestamp |-> lastTs - (Len(shapes) - i) * d,
         Open |-> shapes[i][1], Close |-> shapes[i][2]]]

\* the newest bar is the one open at nowv, the one closed just before it, or
\* a bar the source stamped one minute late
LastStamps(nowv, d) == {Truncate(nowv, d) - d, Truncate(nowv, d), Truncate(nowv, d) + 1}

SeriesAt(nowv, interval) ==
    LET d == Spacing(interval)
    IN {MkSeries(sh, ts, d) :
           sh \in UNION {[1..n -> Shapes] : n \in 0..MaxLen},
           ts \in LastStamps(nowv, d)}

CheckIntervals == {"1h", "1w", "7x"}

\* NewBot and NewBotWithDeps install the first list with MinCount 3; the
\* other lists are Bot values with the same rule types
StrategyLists ==
    {<<NewThreeCandleReversal, NewConsecutiveCandles(n)>> : n \in 1..MaxMinCount}
    \cup {<<NewConsecutiveCandles(1), NewConsecutiveCandles(2)>>}


(***************************************************************************)
(* Go compares strings byte by byte; these are the UTF-8 bytes of the      *)
(* strings of the model ("DAO CHIEU" and "TANG GIAM LIEN TUC" are the      *)
(* Vietnamese names that GetName returns).                                 *)
(***************************************************************************)
\* symbol names of a large listing, in ascending order
ListedSymbols ==
    << "CAAUSDT", "CABUSDT", "CACUSDT", "CADUSDT", "CAEUSDT", "CAFUSDT",
       "CAGUSDT", "CAHUSDT", "CAIUSDT", "CAJUSDT", "CAKUSDT", "CALUSDT",
       "CAMUSDT", "CANUSDT", "CAOUSDT", "CAPUSDT", "CAQUSDT", "CARUSDT",
       "CASUSDT", "CATUSDT", "CAUUSDT", "CAVUSDT", "CAWUSDT", "CAXUSDT",
       "CAYUSDT", "CAZUSDT", "CBAUSDT", "CBBUSDT", "CBCUSDT", "CBDUSDT",
       "CBEUSDT", "CBFUSDT", "CBGUSDT", "CBHUSDT", "CBIUSDT", "CBJUSDT",
       "CBKUSDT", "CBLUSDT", "CBMUSDT", "CBNUSDT", "CBOUSDT", "CBPUSDT",
       "CBQUSDT", "CBRUSDT", "CBSUSDT", "CBTUSDT", "CBUUSDT", "CBVUSDT",
       "CBWUSDT", "CBXUSDT", "CBYUSDT", "CBZUSDT", "CCAUSDT", "CCBUSDT",
       "CCCUSDT", "CCDUSDT", "CCEUSDT", "CCFUSDT", "CCGUSDT", "CCHUSDT",
       "CCIUSDT", "CCJUSDT", "CCKUSDT", "CCLUSDT", "CCMUSDT", "CCNUSDT",
       "CCOUSDT", "CCPUSDT", "CCQUSDT", "CCRUSDT", "CCSUSDT", "CCTUSDT",
       "CCUUSDT", "CCVUSDT", "CCWUSDT", "CCXUSDT", "CCYUSDT", "CCZUSDT",
       "CDAUSDT", "CDBUSDT", "CDCUSDT", "CDDUSDT", "CDEUSDT", "CDFUSDT",
       "CDGUSDT", "CDHUSDT", "CDIUSDT", "CDJUSDT", "CDKUSDT", "CDLUSDT",
       "CDMUSDT", "CDNUSDT", "CDOUSDT", "CDPUSDT", "CDQUSDT", "CDRUSDT",
       "CDSUSDT", "CDTUSDT", "CDUUSDT", "CDVUSDT", "CDWUSDT", "CDXUSDT",
       "CDYUSDT", "CDZUSDT", "CEAUSDT", "CEBUSDT", "CECUSDT", "CEDUSDT",
       "CEEUSDT", "CEFUSDT", "CEGUSDT", "CEHUSDT", "CEIUSDT", "CEJUSDT",
       "CEKUSDT", "CELUSDT", "CEMUSDT", "CENUSDT", "CEOUSDT", "CEPUSDT",
       "CEQUSDT", "CERUSDT", "CESUSDT", "CETUSDT", "CEUUSDT", "CEVUSDT",
       "CEWUSDT", "CEXUSDT", "CEYUSDT", "CEZUSDT", "CFAUSDT", "CFBUSDT",
       "CFCUSDT", "CFDUSDT", "CFEUSDT", "CFFUSDT", "CFGUSDT", "CFHUSDT",
       "CFIUSDT", "CFJUSDT", "CFKUSDT", "CFLUSDT", "CFMUSDT", "CFNUSDT",
       "CFOUSDT", "CFPUSDT", "CFQUSDT", "CFRUSDT", "CFSUSDT", "CFTUSDT",
       "CFUUSDT", "CFVUSDT", "CFWUSDT", "CFXUSDT", "CFYUSDT", "CFZUSDT" >>

ListedIndex == [n \in {ListedSymbols[i] : i \in 1..Len(ListedSymbols)} |->
                   CHOOSE i \in 1..Len(ListedSymbols) : ListedSymbols[i] = n]

\* the UTF-8 bytes of the strings the program compares
StringBytes(str) ==
    CASE str = "DAO CHIEU" -> <<196, 144, 225, 186, 162, 79, 32, 67, 72, 73, 225, 187, 128, 85>>
      [] str = "TANG GIAM LIEN TUC" ->
            <<84, 196, 130, 78, 71, 32, 71, 73, 225, 186, 162, 77, 32, 76, 73, 195, 138,
              78, 32, 84, 225, 187, 164, 67>>
      [] str = "1h" -> <<49, 104>>
      [] str = "4h" -> <<52, 104>>
      [] str = "1w" -> <<49, 119>>
      [] str = "7x" -> <<55, 120>>
      [] str = "ADAUSDT" -> <<65, 68, 65, 85, 83, 68, 84>>
      [] str = "BTCUSDT" -> <<66, 84, 67, 85, 83, 68, 84>>
      [] str = "ETHUSDT" -> <<69, 84, 72, 85, 83, 68, 84>>
      [] str = "SOLUSDT" -> <<83, 79, 76, 85, 83, 68, 84>>
      [] str = "XRPUSDT" -> <<88, 82, 80, 85, 83, 68, 84>>
      [] str = "BTCUSDC" -> <<66, 84, 67, 85, 83, 68, 67>>
      [] str = "USDT" -> <<85, 83, 68, 84>>
      [] OTHER -> LET i == ListedIndex[str]
                  IN <<67, 65 + (i - 1) \div 26, 65 + ((i - 1) % 26), 85, 83, 68, 84>>

RECURSIVE BytesLess(_, _)
BytesLess(a, b) ==
    IF b = <<>> THEN FALSE
    ELSE IF a = <<>> THEN TRUE
    ELSE IF Head(a) # Head(b) THEN Head(a) < Head(b)
    ELSE BytesLess(Tail(a), Tail(b))

StringLess(a, b) == BytesLess(StringBytes(a), StringBytes(b))

(***************************************************************************)
(* telegram.Bot.SendSignals: the messages it sends for a signal list, in   *)
(* the order it sends them.                                                *)
(***************************************************************************)
maxSymbolsPerChunk == 100

GroupKeys(signals) ==
    {[pattern |-> signals[i].Pattern, interval |-> signals[i].Interval] : i \in 1..Len(signals)}

GroupOf(signals, key) ==
    SelectSeq(signals, LAMBDA sig : sig.Pattern = key.pattern /\ sig.Interval = key.interval)

GroupLessByInterval(g, h) ==
    IF g.interval # h.interval THEN StringLess(g.interval, h.interval)
    ELSE StringLess(g.pattern, h.pattern)

\* the less function of the sort of sortedGroups
GroupLess(g, h) ==
    IF g.pattern # h.pattern THEN StringLess(g.pattern, h.pattern)
    ELSE StringLess(g.interval, h.interval)

RECURSIVE SortGroups(_)
SortGroups(keys) ==
    IF keys = {} THEN <<>>
    ELSE LET first == CHOOSE g \in keys : \A h \in keys \ {g} : GroupLess(g, h)
         IN <<first>> \o SortGroups(keys \ {first})

InfoLessAscendingCount(a, b) ==
    IF a.count # b.count THEN a.count < b.count
    ELSE StringLess(a.symbol, b.symbol)

\* the less function of the sorts of bullish and bearish
InfoLess(a, b) ==
    IF a.count # b.count THEN a.count > b.count
    ELSE StringLess(a.symbol, b.symbol)

\* sort.Slice with InfoLess: an entry's place is one more than the number
\* of entries the order puts before it (equal entries are interchangeable)
SortInfos(infos) ==
    LET n == Len(infos)
        place == [i \in 1..n |->
                    1 + Cardinality({j \in 1..n : \/ InfoLess(infos[j], infos[i])
                                                  \/ infos[j] = infos[i] /\ j < i})] \o <<>>
    IN [r \in 1..n |-> infos[CHOOSE i \in 1..n : place[i] = r]]

\* lines 90-94: the symbolInfo of every signal
InfosOf(signals) ==
    [i \in 1..Len(signals) |->
        [symbol |-> signals[i].Symbol, count |-> signals[i].ConsecutiveCount]]

chunkSymbolInfosFirstOnly(infos, chunkSize) ==
    IF Len(infos) = 0 THEN <<>>
    ELSE <<SubSeq(infos, 1, IF Len(infos) <= chunkSize THEN Len(infos) ELSE chunkSize)>>

chunkSymbolInfosOversized(infos, chunkSize) ==
    IF Len(infos) = 0 THEN <<>>
    ELSE IF Len(infos) <= chunkSize + 1 THEN <<infos>>
    ELSE <<SubSeq(infos, 1, chunkSize + 1), SubSeq(infos, chunkSize + 2, Len(infos))>>

RECURSIVE chunkSymbolInfos(_, _)
chunkSymbolInfos(infos, chunkSize) ==
    IF Len(infos) = 0 THEN <<>>
    ELSE IF Len(infos) <= chunkSize THEN <<infos>>
    ELSE <<SubSeq(infos, 1, chunkSize)>>
         \o chunkSymbolInfos(SubSeq(infos, chunkSize + 1, Len(infos)), chunkSize)

\* formatGroupedMessage, lines 192-249: under the header the bullish symbols
\* are written first and the bearish symbols after them
formatGroupedMessage(pattern, interval, bullish, bearish, currentChunk, totalChunks) ==
    [pattern |-> pattern, interval |-> interval, bullish |-> bullish, bearish |-> bearish,
     currentChunk |-> currentChunk, totalChunks |-> totalChunks,
     body |-> [j \in 1..Len(bullish) |->
                 [side |-> "bullish", symbol |-> bullish[j].symbol, count |-> bullish[j].count]]
              \o [j \in 1..Len(bearish) |->
                 [side |-> "bearish", symbol |-> bearish[j].symbol, count |-> bearish[j].count]]]

\* the messages of one group: one message, or the bullish chunks followed
\* by the bearish chunks
sendGroupedSignals(pattern, interval, signals) ==
    LET bullish == SortInfos(InfosOf(SelectSeq(signals, LAMBDA sig : sig.Trend # "bearish")))
        bearish == SortInfos(InfosOf(SelectSeq(signals, LAMBDA sig : sig.Trend = "bearish")))
        totalSymbols == Len(bullish) + Len(bearish)
        bullishChunks == chunkSymbolInfos(bullish, maxSymbolsPerChunk)
        bearishChunks == chunkSymbolInfos(bearish, maxSymbolsPerChunk)
        totalChunks == Len(bullishChunks) + Len(bearishChunks)
    IN IF totalSymbols <= maxSymbolsPerChunk
       THEN <<formatGroupedMessage(pattern, interval, bullish, bearish, 1, 1)>>
       ELSE [c \in 1..totalChunks |->
               IF c <= Len(bullishChunks)
               THEN formatGroupedMessage(pattern, interval, bullishChunks[c], <<>>, c,
                                         totalChunks)
               ELSE formatGroupedMessage(pattern, interval, <<>>,
                                         bearishChunks[c - Len(bullishChunks)], c,
                                         totalChunks)]

RECURSIVE GroupMessages(_, _)
GroupMessages(signals, sortedGroups) ==
    IF sortedGroups = <<>> THEN <<>>
    ELSE LET key == Head(sortedGroups)
         IN sendGroupedSignals(key.pattern, key.interval, GroupOf(signals, key))
            \o GroupMessages(signals, Tail(sortedGroups))

SendSignalsMessages(signals) ==
    IF Len(signals) = 0 THEN <<>>
    ELSE GroupMessages(signals, SortGroups(GroupKeys(signals)))

(***************************************************************************)
(* State.                                                                  *)
(***************************************************************************)
VARIABLES
    inp,         \* SpecCheck: the arguments of the call under check
    cpc,         \* SpecCheck: "input", "matched" or "checked"
    mres,        \* SpecCheck: what each rule's Match returned on inp.fetch.candles
    res,         \* SpecCheck: what checkSymbol did on inp
    config,      \* b.config.Bot
    callerPc,    \* position of scan() (caller 0) and of scanSpecificInterval(k) (caller k)
    callerRet,   \* what the caller returned: "nil" or the error
    collected,   \* per caller, the signal list it hands to SendSignals
    sendCalls,   \* per caller, the number of calls of sender.SendSignals
    symbolCalls, \* per caller, the number of calls of provider.GetSymbols
    pending,     \* per caller, the messages SendSignals has still to send
    sendFailed,  \* per caller, the message whose SendMessage failed, if any
    sent,        \* the messages delivered to the chat, in order
    nspawn,      \* scan(): number of interval goroutines started
    signalsChan, \* scan(): the buffered channel of per-interval results
    ipc,         \* per interval, the position of its scanInterval call
    bi,          \* per interval, the loop variable i of scanInterval (start of the batch)
    nxt,         \* per interval, the number of symbol goroutines started
    sem,         \* per interval, the number of tokens in semaphore
    mu,          \* per interval, the task holding mu (0: unlocked)
    isignals,    \* per interval, scanInterval's signals slice
    tpc,         \* per interval and symbol, the position of the goroutine
    tsig,        \* per interval and symbol, symbolSignals
    tread,       \* per interval and symbol, signals as read under mu
    failed,      \* the tasks whose candle fetch or interval parsing failed
    lpc,         \* SpecTimer: the position of runIntervalLoop
    loopInterval,\* SpecTimer: the interval label the loop was started with
    now,         \* SpecTimer: the wall clock, in whole minutes
    next,        \* SpecTimer: the instant the loop sleeps until
    scans,       \* SpecTimer: start and end of the scans the loop has run
    client,      \* bybit.Client: cachedSymbols, lastSymbolsUpdate and the state of mu
    gpc,         \* per GetSymbols call, its position
    gret,        \* per GetSymbols call, what it returned
    gfetch,      \* per GetSymbols call, its local symbols and the pages it has read
    fetchLog,    \* the remote fetches of the symbol list that have ended, in order
    retry        \* doRequestWithRetry: position, req, i, what each client.Do gave, resp, err

timerVars == <<lpc, loopInterval, now, next, scans>>

clientVars == <<client, gpc, gret, gfetch, fetchLog, retry>>

\* the variables no step of a scan changes
checkVars == <<inp, cpc, mres, res, timerVars, clientVars>>

callerVars == <<callerPc, callerRet, collected, sendCalls, symbolCalls, pending, sendFailed,
                sent>>

intervalVars == <<nspawn, signalsChan, ipc, bi, nxt>>

taskVars == <<sem, mu, isignals, tpc, tsig, tread, failed>>

scanVars == <<config, callerVars, intervalVars, taskVars>>

vars == <<checkVars, scanVars>>

(***************************************************************************)
(* Bounds and inputs of the scan.                                          *)
(***************************************************************************)
NumSymbols == 2      \* length of the list GetSymbols returns
MaxBatch == 2        \* BatchSize ranges over 1..MaxBatch
MaxConc == 2         \* MaxConcurrency ranges over 1..MaxConc

SymbolNames == <<"ADAUSDT", "BTCUSDT", "ETHUSDT", "SOLUSDT", "XRPUSDT">>

SymbolList == [i \in 1..NumSymbols |-> SymbolNames[((i - 1) % Len(SymbolNames)) + 1]]

\* the enabled interval lists the scan is run with
IntervalLists == {<<"1h", "4h">>, <<"7x", "1w">>}

MaxIntervals == CHOOSE n \in 0..8 : /\ \A l \in IntervalLists : Len(l) <= n
                                  /\ \E l \in IntervalLists : Len(l) = n

Callers == 0..MaxIntervals

Loops == 1..MaxIntervals

Tasks == Loops \X (1..NumSymbols)

\* the rules NewBot and NewBotWithDeps install
BotStrategies == <<NewThreeCandleReversal, NewConsecutiveCandles(3)>>

\* the scan is short against a bar: every task reads the same clock
ScanClock == NowBase

\* the market: what the candle source holds for a symbol and an interval.
\* Four histories, shifted by one from "1h" to "4h"; some include the bar
\* still forming, one is served without it.  The weekly bars alternate.
MarketShapes(p) ==
    CASE p = 1 -> [closed |-> <<<<2, 1>>, <<2, 1>>, <<2, 1>>, <<1, 2>>>>, forming |-> TRUE]
      [] p = 2 -> [closed |-> <<<<2, 1>>, <<1, 2>>, <<1, 2>>, <<1, 1>>>>, forming |-> FALSE]
      [] p = 3 -> [closed |-> <<<<2, 1>>, <<1, 2>>, <<2, 1>>, <<1, 2>>>>, forming |-> TRUE]
      [] OTHER -> [closed |-> <<<<1, 2>>, <<1, 2>>, <<1, 2>>, <<2, 1>>>>, forming |-> TRUE]

Market(s, interval) ==
    LET m == MarketShapes(IF interval = "1w" THEN 3
                          ELSE (s + (IF interval = "4h" THEN 1 ELSE 0)) % 4)
        d == Spacing(interval)
        open == Truncate(ScanClock, d)
    IN IF m.forming
       THEN MkSeries(Append(m.closed, <<1, 1>>), open, d)
       ELSE MkSeries(m.closed, open - d, d)

(***************************************************************************)
(* The scan at rest (its state under SpecCheck).                           *)
(***************************************************************************)
IdleConfig == [BatchSize |-> 1, MaxConcurrency |-> 1, EnabledIntervals |-> <<"1h">>,
               RunOnce |-> TRUE]

CallerStart(cfg, pcs, signals) ==
    /\ config = cfg
    /\ callerPc = pcs
    /\ callerRet = [c \in Callers |-> "none"]
    /\ collected = signals
    /\ sendCalls = [c \in Callers |-> 0]
    /\ symbolCalls = [c \in Callers |-> 0]
    /\ pending = [c \in Callers |-> <<>>]
    /\ sendFailed = [c \in Callers |-> <<>>]
    /\ sent = <<>>
    /\ nspawn = 0
    /\ signalsChan = <<>>
    /\ ipc = [k \in Loops |-> "new"]
    /\ bi = [k \in Loops |-> 0]
    /\ nxt = [k \in Loops |-> 0]
    /\ sem = [k \in Loops |-> 0]
    /\ mu = [k \in Loops |-> 0]
    /\ isignals = [k \in Loops |-> <<>>]
    /\ tpc = [t \in Tasks |-> "new"]
    /\ tsig = [t \in Tasks |-> <<>>]
    /\ tread = [t \in Tasks |-> <<>>]
    /\ failed = {}

ScanStart(cfg, pcs) == CallerStart(cfg, pcs, [c \in Callers |-> <<>>])

ScanIdle == ScanStart(IdleConfig, [c \in Callers |-> "idle"])

\* no interval loop is being timed
TimerIdle ==
    /\ lpc = "idle"
    /\ loopInterval = ""
    /\ now = 0
    /\ next = 0
    /\ scans = <<>>

(***************************************************************************)
(* bybit.Client at rest: nothing cached, mu free, no call under way.       *)
(***************************************************************************)
MaxCallers == 2      \* concurrent calls of Client.GetSymbols
MaxPages == 2        \* pages of the instruments list

GetCallers == 1..MaxCallers

\* the zero time.Time, in minutes of the Unix epoch
ZeroTime == 0 - ZeroTimeOffset

NewClient == [cachedSymbols |-> <<>>, lastSymbolsUpdate |-> ZeroTime,
              readers |-> {}, writer |-> 0]

NoReturn == [how |-> "none", symbols |-> <<>>, err |-> FALSE]

NoFetch == [symbols |-> <<>>, pages |-> 0]

RetryIdle == [pc |-> "idle", req |-> "none", i |-> 0, tries |-> <<>>, resp |-> "none",
              err |-> "none"]

ClientIdle ==
    /\ client = NewClient
    /\ gpc = [g \in GetCallers |-> "idle"]
    /\ gret = [g \in GetCallers |-> NoReturn]
    /\ gfetch = [g \in GetCallers |-> NoFetch]
    /\ fetchLog = <<>>
    /\ retry = RetryIdle

NoResult == [requested |-> 0, window |-> <<>>, signals |-> <<>>, outcome |-> "none"]

Fetches(nowv, interval) ==
    {[err |-> FALSE, candles |-> c] : c \in SeriesAt(nowv, interval)}
    \cup {[err |-> TRUE, candles |-> <<>>]}

InitCheck ==
    /\ \E nowv \in Clock, interval \in CheckIntervals, strats \in StrategyLists :
          \E fetch \in Fetches(nowv, interval) :
             inp = [symbol |-> "BTCUSDT", interval |-> interval, fetch |-> fetch,
                    nowv |-> nowv, strategies |-> strats]
    /\ cpc = "input"
    /\ mres = <<>>
    /\ res = NoResult
    /\ TimerIdle
    /\ ClientIdle
    /\ ScanIdle

\* every rule of the list is asked to match the series as fetched
CallMatch ==
    /\ cpc = "input"
    /\ ~inp.fetch.err
    /\ mres' = [i \in 1..Len(inp.strategies) |-> Match(inp.strategies[i], inp.fetch.candles)]
    /\ cpc' = "matched"
    /\ UNCHANGED <<inp, res, timerVars, clientVars, scanVars>>

\* checkSymbol runs on the inputs
CallCheckSymbol ==
    /\ cpc = "input"
    /\ res' = CheckSymbol(inp.symbol, inp.interval, inp.fetch, inp.nowv, inp.strategies)
    /\ cpc' = "checked"
    /\ UNCHANGED <<inp, mres, timerVars, clientVars, scanVars>>

NextCheck == CallMatch \/ CallCheckSymbol

SpecCheck == InitCheck /\ [][NextCheck]_vars

(***************************************************************************)
(* checkSymbol under a configured TargetTime (the -time flag, main.go      *)
(* lines 26-33): the value goes to GetCandles as the end of the request.   *)
(***************************************************************************)
\* instants a scan can be asked about; 0 is "not set"
TargetTimes == {0, NowBase - 90, NowBase - 1}

\* wall-clock readings at which the scan runs
WallClocks == Clock \cup {NowBase + 7 * 24 * 60}

\* GetCandles, lines 154-160: the newest candle asked for is the one at
\* endTime when endTime > 0 and the one at the time of the request otherwise
RequestEnd(endTime, nowv) == IF endTime > 0 THEN endTime ELSE nowv

InitTarget ==
    /\ \E nowv \in WallClocks, targetTime \in TargetTimes, interval \in {"1h", "1w"} :
          /\ targetTime <= nowv
          /\ \E fetch \in Fetches(RequestEnd(targetTime, nowv), interval) :
                inp = [symbol |-> "BTCUSDT", interval |-> interval, fetch |-> fetch,
                       nowv |-> nowv, strategies |-> BotStrategies,
                       targetTime |-> targetTime]
    /\ cpc = "input"
    /\ mres = <<>>
    /\ res = NoResult
    /\ TimerIdle
    /\ ClientIdle
    /\ ScanIdle

NextTarget == CallCheckSymbol

SpecTarget == InitTarget /\ [][NextTarget]_vars

(***************************************************************************)
(* checkSymbol on what GetCandles returns for a symbol's history: the      *)
(* request carries limit = maxRequired and the exchange answers with the   *)
(* newest candles, at most limit of them.                                  *)
(***************************************************************************)
\* GetCandles, lines 153-156 and 246-249: at most limit candles, the newest
\* ones, oldest first
GetCandles(history, limit) ==
    IF Len(history) <= limit THEN history ELSE LastN(history, limit)

\* the bot's rules, and Bot values in which the run rule is asked first
RuleLists ==
    {BotStrategies}
    \cup {<<NewConsecutiveCandles(n), NewThreeCandleReversal>> : n \in 1..MaxMinCount}

\* what the exchange holds for a symbol: closed bars, with or without the
\* bar that is forming at nowv
Histories(nowv, interval) ==
    LET d == Spacing(interval)
    IN {MkSeries(sh, ts, d) :
           sh \in UNION {[1..n -> Shapes] : n \in 0..MaxLen},
           ts \in {Truncate(nowv, d) - d, Truncate(nowv, d)}}

InitFetch ==
    /\ \E nowv \in Clock, interval \in {"1h", "1w"}, strats \in RuleLists :
          \E history \in Histories(nowv, interval) :
             inp = [symbol |-> "BTCUSDT", interval |-> interval,
                    fetch |-> [err |-> FALSE,
                               candles |-> GetCandles(history, MaxRequired(strats))],
                    nowv |-> nowv, strategies |-> strats, history |-> history]
    /\ cpc = "input"
    /\ mres = <<>>
    /\ res = NoResult
    /\ TimerIdle
    /\ ClientIdle
    /\ ScanIdle

NextFetch == CallCheckSymbol

SpecFetch == InitFetch /\ [][NextFetch]_vars


(***************************************************************************)
(* One scan cycle: Start() runs scan() once (RunOnce), or the loop of an   *)
(* enabled interval runs scanSpecificInterval.                             *)
(***************************************************************************)
NumIntervals == Len(config.EnabledIntervals)

InitScan ==
    /\ \E b \in 1..MaxBatch, m \in 1..MaxConc, ivs \in IntervalLists, loop \in Callers :
          /\ loop <= Len(ivs)
          /\ ScanStart([BatchSize |-> b, MaxConcurrency |-> m, EnabledIntervals |-> ivs,
                        RunOnce |-> (loop = 0)],
                       [c \in Callers |->
                           IF c # loop THEN "idle"
                           ELSE IF c = 0 THEN "getSymbols" ELSE "loop"])
    /\ inp = [symbol |-> "", interval |-> "", fetch |-> [err |-> TRUE, candles |-> <<>>],
              nowv |-> 0, strategies |-> <<>>]
    /\ cpc = "idle"
    /\ mres = <<>>
    /\ res = NoResult
    /\ TimerIdle
    /\ ClientIdle

\* scanInterval begins its dispatch loop, or waits at once on an empty list
DispatchStart == IF Len(SymbolList) > 0 THEN "spawn" ELSE "wait"

\* lines 133 and 173: the sender is called for a non-empty list only
ShouldSendAlways(signals) == TRUE

ShouldSend(signals) == Len(signals) > 0

\* lines 135-137 and 175-177: a sender error is wrapped and returned
SendResultSwallowed(sendErr) == "nil"

SendResult(sendErr) == IF sendErr THEN "failed to send signals" ELSE "nil"

RunIntervalLoopUnparsed(k) ==
    /\ callerPc[k] = "loop"
    /\ callerPc' = [callerPc EXCEPT ![k] = "getSymbols"]
    /\ UNCHANGED <<checkVars, config, callerRet, collected, sendCalls, symbolCalls, pending,
                   sendFailed, sent, intervalVars, taskVars>>

\* runIntervalLoop, lines 100-118: the label is parsed, the timer fires
RunIntervalLoop(k) ==
    /\ callerPc[k] = "loop"
    /\ callerPc' = [callerPc EXCEPT ![k] =
                      IF ParseInterval(config.EnabledIntervals[k]).ok
                      THEN "getSymbols" ELSE "exited"]
    /\ UNCHANGED <<checkVars, config, callerRet, collected, sendCalls, symbolCalls, pending,
                   sendFailed, sent, intervalVars, taskVars>>

\* provider.GetSymbols returned the list
GetSymbolsOk(c) ==
    /\ callerPc[c] = "getSymbols"
    /\ IF c = 0
       THEN /\ callerPc' = [callerPc EXCEPT ![c] = IF NumIntervals > 0 THEN "spawn" ELSE "wait"]
            /\ ipc' = ipc
       ELSE /\ callerPc' = [callerPc EXCEPT ![c] = "scanning"]
            /\ ipc' = [ipc EXCEPT ![c] = DispatchStart]
    /\ symbolCalls' = [symbolCalls EXCEPT ![c] = symbolCalls[c] + 1]
    /\ UNCHANGED <<checkVars, config, callerRet, collected, sendCalls, pending, sendFailed,
                   sent, nspawn, signalsChan, bi, nxt, taskVars>>

\* provider.GetSymbols failed
GetSymbolsFail(c) ==
    /\ callerPc[c] = "getSymbols"
    /\ callerPc' = [callerPc EXCEPT ![c] = "done"]
    /\ callerRet' = [callerRet EXCEPT ![c] = "failed to get symbols"]
    /\ symbolCalls' = [symbolCalls EXCEPT ![c] = symbolCalls[c] + 1]
    /\ UNCHANGED <<checkVars, config, collected, sendCalls, pending, sendFailed,
                   sent, intervalVars, taskVars>>

\* scan(), lines 156-163: the next interval's goroutine is started
SpawnIntervalRefetch ==
    /\ callerPc[0] = "spawn"
    /\ nspawn < NumIntervals
    /\ nspawn' = nspawn + 1
    /\ symbolCalls' = [symbolCalls EXCEPT ![0] = symbolCalls[0] + 1]
    /\ ipc' = [ipc EXCEPT ![nspawn + 1] = DispatchStart]
    /\ callerPc' = [callerPc EXCEPT ![0] = IF nspawn + 1 = NumIntervals THEN "wait" ELSE "spawn"]
    /\ UNCHANGED <<checkVars, config, callerRet, collected, sendCalls, pending, sendFailed,
                   sent, signalsChan, bi, nxt, taskVars>>

SpawnInterval ==
    /\ callerPc[0] = "spawn"
    /\ nspawn < NumIntervals
    /\ nspawn' = nspawn + 1
    /\ ipc' = [ipc EXCEPT ![nspawn + 1] = DispatchStart]
    /\ callerPc' = [callerPc EXCEPT ![0] = IF nspawn + 1 = NumIntervals THEN "wait" ELSE "spawn"]
    /\ UNCHANGED <<checkVars, config, callerRet, collected, sendCalls, symbolCalls, pending,
                   sendFailed, sent, signalsChan, bi, nxt, taskVars>>

\* the end of the batch that starts at i (lines 193-196)
BatchEnd(i) ==
    IF i + config.BatchSize > Len(SymbolList) THEN Len(SymbolList) ELSE i + config.BatchSize

\* scanInterval, lines 192-219: the next symbol's goroutine is started; after
\* the last one of the batch the dispatcher sleeps, advances i by BatchSize
\* and tests the loop condition
SpawnTask(k) ==
    /\ ipc[k] = "spawn"
    /\ nxt[k] < BatchEnd(bi[k])
    /\ nxt' = [nxt EXCEPT ![k] = nxt[k] + 1]
    /\ tpc' = [tpc EXCEPT ![<<k, nxt[k] + 1>>] = "sem"]
    /\ IF nxt[k] + 1 = BatchEnd(bi[k])
       THEN /\ bi' = [bi EXCEPT ![k] = bi[k] + config.BatchSize]
            /\ ipc' = [ipc EXCEPT ![k] =
                          IF bi[k] + config.BatchSize < Len(SymbolList) THEN "spawn" ELSE "wait"]
       ELSE UNCHANGED <<bi, ipc>>
    /\ UNCHANGED <<checkVars, config, callerVars, nspawn, signalsChan, sem, mu, isignals,
                   tsig, tread, failed>>

\* line 205: a token fits into the semaphore channel
SemaphoreHasRoomAlways(k) == TRUE

SemaphoreHasRoomOthersIdle(k) ==
    /\ sem[k] < config.MaxConcurrency
    /\ \A j \in Loops \ {k} : sem[j] = 0

SemaphoreHasRoomShared(k) ==
    Cardinality({t \in Tasks : tpc[t] \in {"lock", "append", "release"}})
        < config.MaxConcurrency

SemaphoreHasRoom(k) == sem[k] < config.MaxConcurrency

\* what checkSymbol returns for each listed symbol on each interval label
\* when the candle source answers
IntervalLabels == UNION {{ivs[i] : i \in 1..Len(ivs)} : ivs \in IntervalLists}

Evaluated ==
    [interval \in IntervalLabels |->
        [s \in 1..NumSymbols |->
            CheckSymbol(SymbolList[s], interval,
                        [err |-> FALSE, candles |-> Market(s, interval)],
                        ScanClock, BotStrategies)]]

\* lines 205-210: the token is sent into the semaphore, then checkSymbol
\* runs and returns r
CheckTask(k, s, r) ==
    /\ tpc[<<k, s>>] = "sem"
    /\ SemaphoreHasRoom(k)
    /\ sem' = [sem EXCEPT ![k] = sem[k] + 1]
    /\ tsig' = [tsig EXCEPT ![<<k, s>>] = r.signals]
    /\ failed' = IF r.outcome \in {"fetch_error", "parse_error"}
                 THEN failed \cup {<<k, s>>} ELSE failed
    /\ tpc' = [tpc EXCEPT ![<<k, s>>] = IF Len(r.signals) > 0 THEN "lock" ELSE "release"]
    /\ UNCHANGED <<checkVars, config, callerVars, intervalVars, mu, isignals, tread>>

CheckFetched(k, s) == CheckTask(k, s, Evaluated[config.EnabledIntervals[k]][s])

CheckFetchFailed(k, s) ==
    CheckTask(k, s, CheckSymbol(SymbolList[s], config.EnabledIntervals[k],
                                [err |-> TRUE, candles |-> <<>>], ScanClock, BotStrategies))

\* line 211: mu.Lock() passes when no task holds the mutex
MutexFreeAlways(k) == TRUE

MutexFree(k) == mu[k] = 0

\* line 211: mu.Lock(), and the slice the append will extend
Lock(k, s) ==
    /\ tpc[<<k, s>>] = "lock"
    /\ MutexFree(k)
    /\ mu' = [mu EXCEPT ![k] = s]
    /\ tread' = [tread EXCEPT ![<<k, s>>] = isignals[k]]
    /\ tpc' = [tpc EXCEPT ![<<k, s>>] = "append"]
    /\ UNCHANGED <<checkVars, config, callerVars, intervalVars, sem, isignals, tsig, failed>>

\* line 212: signals = append(signals, symbolSignals...)
AppendedOverwrite(old, new) == new

Appended(old, new) == old \o new

\* lines 212-213: the append and mu.Unlock()
AppendUnlock(k, s) ==
    /\ tpc[<<k, s>>] = "append"
    /\ isignals' = [isignals EXCEPT ![k] = Appended(tread[<<k, s>>], tsig[<<k, s>>])]
    /\ mu' = [mu EXCEPT ![k] = 0]
    /\ tpc' = [tpc EXCEPT ![<<k, s>>] = "release"]
    /\ UNCHANGED <<checkVars, config, callerVars, intervalVars, sem, tsig, tread, failed>>

\* the deferred calls, lines 206 and 203: the token is taken back, wg.Done()
ReleaseKeepsToken(k, s) ==
    /\ tpc[<<k, s>>] = "release"
    /\ tpc' = [tpc EXCEPT ![<<k, s>>] = "done"]
    /\ UNCHANGED <<checkVars, config, callerVars, intervalVars, sem, mu, isignals, tsig,
                   tread, failed>>

Release(k, s) ==
    /\ tpc[<<k, s>>] = "release"
    /\ sem' = [sem EXCEPT ![k] = sem[k] - 1]
    /\ tpc' = [tpc EXCEPT ![<<k, s>>] = "done"]
    /\ UNCHANGED <<checkVars, config, callerVars, intervalVars, mu, isignals, tsig, tread,
                   failed>>

\* lines 221-222: wg.Wait() passes and scanInterval returns signals
ScanIntervalReturn(k) ==
    /\ ipc[k] = "wait"
    /\ \A s \in 1..Len(SymbolList) : tpc[<<k, s>>] = "done"
    /\ ipc' = [ipc EXCEPT ![k] = "returned"]
    /\ UNCHANGED <<checkVars, config, callerVars, nspawn, signalsChan, bi, nxt, taskVars>>

\* scan(), line 154: the capacity of signalsChan
ChannelCapacityOneLess == NumIntervals - 1

ChannelCapacity == NumIntervals

\* scan(), lines 159-161: the result goes into the channel, wg.Done()
Publish(k) ==
    /\ callerPc[0] \in {"spawn", "wait"}
    /\ ipc[k] = "returned"
    /\ Len(signalsChan) < ChannelCapacity
    /\ signalsChan' = Append(signalsChan, isignals[k])
    /\ ipc' = [ipc EXCEPT ![k] = "done"]
    /\ UNCHANGED <<checkVars, config, callerVars, nspawn, bi, nxt, taskVars>>

\* scan(), lines 165-180: wg.Wait() passes, the channel is closed and
\* drained into allSignals
Collect ==
    /\ callerPc[0] = "wait"
    /\ \A k \in 1..NumIntervals : ipc[k] = "done"
    /\ collected' = [collected EXCEPT ![0] = Flatten(signalsChan)]
    /\ signalsChan' = <<>>
    /\ IF ShouldSend(Flatten(signalsChan))
       THEN /\ callerPc' = [callerPc EXCEPT ![0] = "send"]
            /\ callerRet' = callerRet
       ELSE /\ callerPc' = [callerPc EXCEPT ![0] = "done"]
            /\ callerRet' = [callerRet EXCEPT ![0] = "nil"]
    /\ UNCHANGED <<checkVars, config, sendCalls, symbolCalls, pending, sendFailed, sent,
                   nspawn, ipc, bi, nxt, taskVars>>

\* scanSpecificInterval, lines 131-140: scanInterval has returned
Deliver(k) ==
    /\ callerPc[k] = "scanning"
    /\ ipc[k] = "returned"
    /\ ipc' = [ipc EXCEPT ![k] = "done"]
    /\ collected' = [collected EXCEPT ![k] = isignals[k]]
    /\ IF ShouldSend(isignals[k])
       THEN /\ callerPc' = [callerPc EXCEPT ![k] = "send"]
            /\ callerRet' = callerRet
       ELSE /\ callerPc' = [callerPc EXCEPT ![k] = "done"]
            /\ callerRet' = [callerRet EXCEPT ![k] = "nil"]
    /\ UNCHANGED <<checkVars, config, sendCalls, symbolCalls, pending, sendFailed, sent, nspawn,
                   signalsChan, bi, nxt, taskVars>>

\* sender.SendSignals is entered: telegram lines 34-68
CallSendSignals(c) ==
    /\ callerPc[c] = "send"
    /\ sendCalls' = [sendCalls EXCEPT ![c] = sendCalls[c] + 1]
    /\ pending' = [pending EXCEPT ![c] = SendSignalsMessages(collected[c])]
    /\ callerPc' = [callerPc EXCEPT ![c] = "sending"]
    /\ UNCHANGED <<checkVars, config, callerRet, collected, symbolCalls, sendFailed, sent,
                   intervalVars, taskVars>>

\* SendMessage delivered the next message
SendMessageOk(c) ==
    /\ callerPc[c] = "sending"
    /\ pending[c] # <<>>
    /\ sent' = Append(sent, Head(pending[c]))
    /\ pending' = [pending EXCEPT ![c] = Tail(pending[c])]
    /\ UNCHANGED <<checkVars, config, callerPc, callerRet, collected, sendCalls, symbolCalls,
                   sendFailed, intervalVars, taskVars>>

\* SendMessage failed: sendGroupedSignals and SendSignals return the error
\* (telegram lines 72-74, 125, 139-141, 148-150) and so does the caller
SendMessageFail(c) ==
    /\ callerPc[c] = "sending"
    /\ pending[c] # <<>>
    /\ sendFailed' = [sendFailed EXCEPT ![c] = <<Head(pending[c])>>]
    /\ callerPc' = [callerPc EXCEPT ![c] = "done"]
    /\ callerRet' = [callerRet EXCEPT ![c] = SendResult(TRUE)]
    /\ UNCHANGED <<checkVars, config, collected, sendCalls, symbolCalls, pending, sent,
                   intervalVars, taskVars>>

\* every group was sent: SendSignals returns nil and so does the caller
SendSignalsReturn(c) ==
    /\ callerPc[c] = "sending"
    /\ pending[c] = <<>>
    /\ callerPc' = [callerPc EXCEPT ![c] = "done"]
    /\ callerRet' = [callerRet EXCEPT ![c] = SendResult(FALSE)]
    /\ UNCHANGED <<checkVars, config, collected, sendCalls, symbolCalls, pending, sendFailed,
                   sent, intervalVars, taskVars>>

Next ==
    \/ \E k \in Loops : RunIntervalLoop(k)
    \/ \E c \in Callers : GetSymbolsOk(c)
    \/ \E c \in Callers : GetSymbolsFail(c)
    \/ SpawnInterval
    \/ \E k \in Loops : SpawnTask(k)
    \/ \E t \in Tasks : CheckFetched(t[1], t[2])
    \/ \E t \in Tasks : CheckFetchFailed(t[1], t[2])
    \/ \E t \in Tasks : Lock(t[1], t[2])
    \/ \E t \in Tasks : AppendUnlock(t[1], t[2])
    \/ \E t \in Tasks : Release(t[1], t[2])
    \/ \E k \in Loops : ScanIntervalReturn(k)
    \/ \E k \in Loops : Publish(k)
    \/ Collect
    \/ \E k \in Loops : Deliver(k)
    \/ \E c \in Callers : CallSendSignals(c)
    \/ \E c \in Callers : SendMessageOk(c)
    \/ \E c \in Callers : SendMessageFail(c)
    \/ \E c \in Callers : SendSignalsReturn(c)

Spec == InitScan /\ [][Next]_vars

(***************************************************************************)
(* The scan under any setting: BatchSize and MaxConcurrency are read from  *)
(* the configuration as they are, zero included.                           *)
(***************************************************************************)
InitSettings ==
    /\ \E b \in 0..MaxBatch, m \in 0..MaxConc, ivs \in IntervalLists, loop \in Callers :
          /\ loop <= Len(ivs)
          /\ ScanStart([BatchSize |-> b, MaxConcurrency |-> m, EnabledIntervals |-> ivs,
                        RunOnce |-> (loop = 0)],
                       [c \in Callers |->
                           IF c # loop THEN "idle"
                           ELSE IF c = 0 THEN "getSymbols" ELSE "loop"])
    /\ inp = [symbol |-> "", interval |-> "", fetch |-> [err |-> TRUE, candles |-> <<>>],
              nowv |-> 0, strategies |-> <<>>]
    /\ cpc = "idle"
    /\ mres = <<>>
    /\ res = NoResult
    /\ TimerIdle
    /\ ClientIdle

\* scanInterval, lines 198-218: the batch symbols[i:end] is empty, no
\* goroutine is started and the dispatcher sleeps
SleepAfterEmptyBatch(k) ==
    /\ ipc[k] = "spawn"
    /\ nxt[k] >= BatchEnd(bi[k])
    /\ ipc' = [ipc EXCEPT ![k] = "sleep"]
    /\ UNCHANGED <<checkVars, config, callerVars, nspawn, signalsChan, bi, nxt, taskVars>>

AdvanceBatchAtLeastOne(k) ==
    /\ ipc[k] = "sleep"
    /\ bi' = [bi EXCEPT ![k] = bi[k] + (IF config.BatchSize < 1 THEN 1 ELSE config.BatchSize)]
    /\ ipc' = [ipc EXCEPT ![k] = IF bi'[k] < Len(SymbolList) THEN "spawn" ELSE "wait"]
    /\ UNCHANGED <<checkVars, config, callerVars, nspawn, signalsChan, nxt, taskVars>>

\* line 192: i += BatchSize, and the loop condition is tested
AdvanceBatch(k) ==
    /\ ipc[k] = "sleep"
    /\ bi' = [bi EXCEPT ![k] = bi[k] + config.BatchSize]
    /\ ipc' = [ipc EXCEPT ![k] = IF bi'[k] < Len(SymbolList) THEN "spawn" ELSE "wait"]
    /\ UNCHANGED <<checkVars, config, callerVars, nspawn, signalsChan, nxt, taskVars>>

NextSettings ==
    \/ Next
    \/ \E k \in Loops : SleepAfterEmptyBatch(k)
    \/ \E k \in Loops : AdvanceBatch(k)

SpecSettings == InitSettings /\ [][NextSettings]_vars

\* the scans whose batch size and gate width vary one at a time
InitFair == InitScan /\ (config.BatchSize = 1 \/ config.MaxConcurrency = 1)

\* the Go scheduler runs every goroutine that can take a step, and every
\* provider and sender call returns: while a step is possible, one is taken
SpecFair == InitFair /\ [][Next]_vars /\ WF_vars(Next)

(***************************************************************************)
(* Continuous mode: Start() runs one goroutine per enabled interval (lines *)
(* 86-96), each in runIntervalLoop, all at the same time.  The batch size  *)
(* and the width of the gate vary one at a time.                           *)
(***************************************************************************)
InitLoops ==
    /\ \E b \in 1..MaxBatch, m \in 1..MaxConc, ivs \in IntervalLists :
          /\ b = 1 \/ m = 1
          /\ ScanStart([BatchSize |-> b, MaxConcurrency |-> m, EnabledIntervals |-> ivs,
                        RunOnce |-> FALSE],
                       [c \in Callers |-> IF c \in 1..Len(ivs) THEN "loop" ELSE "idle"])
    /\ inp = [symbol |-> "", interval |-> "", fetch |-> [err |-> TRUE, candles |-> <<>>],
              nowv |-> 0, strategies |-> <<>>]
    /\ cpc = "idle"
    /\ mres = <<>>
    /\ res = NoResult
    /\ TimerIdle
    /\ ClientIdle

\* a step of the loop of interval k or of a goroutine it started
LoopStep(k) ==
    \/ RunIntervalLoop(k)
    \/ GetSymbolsOk(k)
    \/ GetSymbolsFail(k)
    \/ SpawnTask(k)
    \/ \E s \in 1..NumSymbols : CheckFetched(k, s)
    \/ \E s \in 1..NumSymbols : CheckFetchFailed(k, s)
    \/ \E s \in 1..NumSymbols : Lock(k, s)
    \/ \E s \in 1..NumSymbols : AppendUnlock(k, s)
    \/ \E s \in 1..NumSymbols : Release(k, s)
    \/ ScanIntervalReturn(k)
    \/ Deliver(k)
    \/ CallSendSignals(k)
    \/ SendMessageOk(k)
    \/ SendMessageFail(k)
    \/ SendSignalsReturn(k)

NextLoops == \E k \in Loops : LoopStep(k)

SpecLoops == InitLoops /\ [][NextLoops]_vars

(***************************************************************************)
(* Bot.Start in either mode: the one-shot scan, or the loops of all        *)
(* enabled intervals side by side; the gate is one token wide.             *)
(***************************************************************************)
InitModes == (InitScan \/ InitLoops) /\ config.MaxConcurrency = 1

SpecModes == InitModes /\ [][Next]_vars

(***************************************************************************)
(* The timing of runIntervalLoop (lines 99-123), in whole minutes: the     *)
(* loop computes the instant to sleep until from the clock, sleeps, scans, *)
(* and starts over when the scan has returned.                             *)
(***************************************************************************)
MaxScans == 3        \* scans of one loop that are followed

\* line 110: next = next.Add(60 * time.Second)
SettleDelay == 1

\* the labels ParseInterval knows, and one it does not
SupportedIntervals == {"1m", "3m", "5m", "15m", "30m", "1h", "2h", "4h", "6h", "12h", "1d", "1w"}

LoopIntervals == SupportedIntervals \cup {"7x"}

\* the loop starts on a bar boundary, a minute before one or a minute after
BootTimes == {NowBase - 1, NowBase, NowBase + 1}

\* how long a scan takes: under a minute, up to just before the next bar
\* closes, up to that boundary, a whole bar, two bars
ScanDurations(d) == {x \in {0, d - 2, d - 1, d, 2 * d} : x >= 0}

InitTimer ==
    /\ lpc = "start"
    /\ loopInterval \in LoopIntervals
    /\ now \in BootTimes
    /\ next = 0
    /\ scans = <<>>
    /\ inp = [symbol |-> "", interval |-> "", fetch |-> [err |-> TRUE, candles |-> <<>>],
              nowv |-> 0, strategies |-> <<>>]
    /\ cpc = "idle"
    /\ mres = <<>>
    /\ res = NoResult
    /\ ScanIdle
    /\ ClientIdle

\* lines 100-104: the label is parsed; the loop returns when that fails
ParseLoopInterval ==
    /\ lpc = "start"
    /\ lpc' = IF ParseInterval(loopInterval).ok THEN "top" ELSE "exited"
    /\ UNCHANGED <<inp, cpc, mres, res, loopInterval, now, next, scans, clientVars, scanVars>>

\* lines 108-110: the next bar boundary after now, plus the settle delay
NextWake(nowv, d) == Truncate(nowv, d) + d + SettleDelay

\* lines 107-112: now is read and next computed
ComputeNext ==
    /\ lpc = "top"
    /\ Len(scans) < MaxScans
    /\ next' = NextWake(now, ParseInterval(loopInterval).d)
    /\ lpc' = "sleeping"
    /\ UNCHANGED <<inp, cpc, mres, res, loopInterval, now, scans, clientVars, scanVars>>

\* lines 113-116: the timer fires at next and scanSpecificInterval is called
TimerFires ==
    /\ lpc = "sleeping"
    /\ now' = next
    /\ scans' = Append(scans, [start |-> next, end |-> next, over |-> FALSE, err |-> "nil"])
    /\ lpc' = "scanning"
    /\ UNCHANGED <<inp, cpc, mres, res, loopInterval, next, clientVars, scanVars>>

\* what scanSpecificInterval returns (lines 125-143)
ScanErrors == {"nil", "failed to get symbols", "failed to send signals"}

ScanReturnsExitOnError(dur, err) ==
    /\ lpc = "scanning"
    /\ now' = now + dur
    /\ scans' = [scans EXCEPT ![Len(scans)] = [start |-> @.start, end |-> now + dur,
                                               over |-> TRUE, err |-> err]]
    /\ lpc' = IF err = "nil" THEN "top" ELSE "exited"
    /\ UNCHANGED <<inp, cpc, mres, res, loopInterval, next, clientVars, scanVars>>

\* lines 116-122: scanSpecificInterval returns after dur minutes; its error,
\* if any, is logged and the loop goes round
ScanReturns(dur, err) ==
    /\ lpc = "scanning"
    /\ now' = now + dur
    /\ scans' = [scans EXCEPT ![Len(scans)] = [start |-> @.start, end |-> now + dur,
                                               over |-> TRUE, err |-> err]]
    /\ lpc' = "top"
    /\ UNCHANGED <<inp, cpc, mres, res, loopInterval, next, clientVars, scanVars>>

NextTimer ==
    \/ ParseLoopInterval
    \/ ComputeNext
    \/ TimerFires
    \/ \E dur \in ScanDurations(ParseInterval(loopInterval).d), err \in ScanErrors :
          ScanReturns(dur, err)

SpecTimer == InitTimer /\ [][NextTimer]_vars

(***************************************************************************)
(* Bot.Start: one scan in one-shot mode (the scan in full), or the loop of *)
(* an interval in continuous mode (the loop in full, its scans by what     *)
(* they return and how long they take).                                    *)
(***************************************************************************)
InitStart == InitScan \/ InitTimer

NextStart == Next \/ NextTimer

SpecStart == InitStart /\ [][NextStart]_vars

(***************************************************************************)
(* bybit.Client.GetSymbols: the symbol list is cached for 24 hours under   *)
(* the RWMutex mu; MaxCallers calls run side by side.                      *)
(***************************************************************************)
\* 24 * time.Hour, in minutes
CacheTTL == 24 * 60

\* lines 61 and 70: a list is cached and it is younger than 24 hours
CacheFresh ==
    /\ Len(client.cachedSymbols) > 0
    /\ now - client.lastSymbolsUpdate < CacheTTL

\* strings.HasSuffix
HasSuffix(str, suffix) ==
    LET b == StringBytes(str)
        sfx == StringBytes(suffix)
    IN Len(b) >= Len(sfx) /\ SubSeq(b, Len(b) - Len(sfx) + 1, Len(b)) = sfx

\* lines 113-117: the symbols of the instruments of a page that are trading
\* against USDT
Listed(page) ==
    LET kept == SelectSeq(page, LAMBDA instrument :
                    instrument.Status = "Trading" /\ HasSuffix(instrument.Symbol, "USDT"))
    IN [i \in 1..Len(kept) |-> kept[i].Symbol]

\* the pages the exchange answers with
PageLists ==
    {<<>>,
     <<[Symbol |-> "BTCUSDT", Status |-> "Trading"],
       [Symbol |-> "BTCUSDC", Status |-> "Trading"]>>,
     <<[Symbol |-> "ADAUSDT", Status |-> "Closed"],
       [Symbol |-> "ETHUSDT", Status |-> "Trading"]>>}

\* what the client holds when the calls begin: nothing, a list cached just
\* now, one cached 24 hours ago, one cached a minute less than 24 hours ago
InitialCaches ==
    {[cachedSymbols |-> <<>>, lastSymbolsUpdate |-> ZeroTime]}
      \cup {[cachedSymbols |-> <<"SOLUSDT">>, lastSymbolsUpdate |-> NowBase - age] :
               age \in {0, CacheTTL - 1, CacheTTL}}

InitCache ==
    /\ inp = [symbol |-> "", interval |-> "", fetch |-> [err |-> TRUE, candles |-> <<>>],
              nowv |-> 0, strategies |-> <<>>]
    /\ cpc = "idle"
    /\ mres = <<>>
    /\ res = NoResult
    /\ lpc = "idle"
    /\ loopInterval = ""
    /\ now = NowBase
    /\ next = 0
    /\ scans = <<>>
    /\ ScanIdle
    /\ \E c \in InitialCaches :
          client = [cachedSymbols |-> c.cachedSymbols,
                    lastSymbolsUpdate |-> c.lastSymbolsUpdate,
                    readers |-> {}, writer |-> 0]
    /\ gpc = [g \in GetCallers |-> "rlock"]
    /\ gret = [g \in GetCallers |-> NoReturn]
    /\ gfetch = [g \in GetCallers |-> NoFetch]
    /\ fetchLog = <<>>
    /\ retry = RetryIdle

\* the variables no step of GetSymbols changes
cacheFixed == <<inp, cpc, mres, res, lpc, loopInterval, next, scans, retry, scanVars>>

\* line 60: c.mu.RLock() is granted while no writer holds mu
CacheRLock(g) ==
    /\ gpc[g] = "rlock"
    /\ client.writer = 0
    /\ client' = [client EXCEPT !.readers = @ \cup {g}]
    /\ gpc' = [gpc EXCEPT ![g] = "check"]
    /\ UNCHANGED <<cacheFixed, now, gret, gfetch, fetchLog>>

\* lines 61-65: the cached list is returned if it is fresh; the read lock is
\* given back either way
CacheReadCheck(g) ==
    /\ gpc[g] = "check"
    /\ client' = [client EXCEPT !.readers = @ \ {g}]
    /\ IF CacheFresh
       THEN /\ gpc' = [gpc EXCEPT ![g] = "returned"]
            /\ gret' = [gret EXCEPT ![g] = [how |-> "cached",
                                            symbols |-> client.cachedSymbols,
                                            err |-> FALSE]]
       ELSE /\ gpc' = [gpc EXCEPT ![g] = "lock"]
            /\ gret' = gret
    /\ UNCHANGED <<cacheFixed, now, gfetch, fetchLog>>

\* line 67: c.mu.Lock() is granted while nobody holds mu
CacheLock(g) ==
    /\ gpc[g] = "lock"
    /\ client.writer = 0
    /\ client.readers = {}
    /\ client' = [client EXCEPT !.writer = g]
    /\ gpc' = [gpc EXCEPT ![g] = "recheck"]
    /\ UNCHANGED <<cacheFixed, now, gret, gfetch, fetchLog>>

CacheDoubleCheckSkipped(g) ==
    /\ gpc[g] = "recheck"
    /\ gpc' = [gpc EXCEPT ![g] = "fetching"]
    /\ UNCHANGED <<cacheFixed, now, client, gret, gfetch, fetchLog>>

\* lines 69-72: the test is made again under the write lock
CacheDoubleCheck(g) ==
    /\ gpc[g] = "recheck"
    /\ IF CacheFresh
       THEN /\ gpc' = [gpc EXCEPT ![g] = "returned"]
            /\ gret' = [gret EXCEPT ![g] = [how |-> "rechecked",
                                            symbols |-> client.cachedSymbols,
                                            err |-> FALSE]]
            /\ client' = [client EXCEPT !.writer = 0]
       ELSE /\ gpc' = [gpc EXCEPT ![g] = "fetching"]
            /\ UNCHANGED <<gret, client>>
    /\ UNCHANGED <<cacheFixed, now, gfetch, fetchLog>>

\* what fetchLog keeps of a fetch that has ended
FetchEnded(g, ok, symbols, fresh, before, after) ==
    [by |-> g, ok |-> ok, symbols |-> symbols, fresh |-> fresh,
     before |-> <<before.cachedSymbols, before.lastSymbolsUpdate>>,
     after |-> <<after.cachedSymbols, after.lastSymbolsUpdate>>]

\* lines 77-132: a page is read and its listed symbols are appended; after
\* the last page (empty cursor) the list is cached and returned
FetchPageOk(g, page, more) ==
    /\ gpc[g] = "fetching"
    /\ more => gfetch[g].pages + 1 < MaxPages
    /\ gfetch' = [gfetch EXCEPT ![g] = [symbols |-> @.symbols \o Listed(page),
                                        pages |-> @.pages + 1]]
    /\ IF more
       THEN UNCHANGED <<client, gpc, gret, fetchLog>>
       ELSE /\ client' = [client EXCEPT !.cachedSymbols = gfetch'[g].symbols,
                                        !.lastSymbolsUpdate = now,
                                        !.writer = 0]
            /\ gpc' = [gpc EXCEPT ![g] = "returned"]
            /\ gret' = [gret EXCEPT ![g] = [how |-> "fetched",
                                            symbols |-> gfetch'[g].symbols,
                                            err |-> FALSE]]
            /\ fetchLog' = Append(fetchLog, FetchEnded(g, TRUE, gfetch'[g].symbols,
                                                    CacheFresh, client, client'))
    /\ UNCHANGED <<cacheFixed, now>>

\* lines 84-111: the request, the read of the body, the decoding or the API
\* return code of a page fails; the error is returned
FetchPageFail(g) ==
    /\ gpc[g] = "fetching"
    /\ client' = [client EXCEPT !.writer = 0]
    /\ gpc' = [gpc EXCEPT ![g] = "returned"]
    /\ gret' = [gret EXCEPT ![g] = [how |-> "error", symbols |-> <<>>, err |-> TRUE]]
    /\ fetchLog' = Append(fetchLog, FetchEnded(g, FALSE, <<>>, CacheFresh, client, client'))
    /\ UNCHANGED <<cacheFixed, now, gfetch>>

\* a minute passes while a call is under way
Tick ==
    /\ \E g \in GetCallers : gpc[g] # "returned"
    /\ now < NowBase + MaxTick
    /\ now' = now + 1
    /\ UNCHANGED <<cacheFixed, clientVars>>

NextCache ==
    \/ \E g \in GetCallers : CacheRLock(g)
    \/ \E g \in GetCallers : CacheReadCheck(g)
    \/ \E g \in GetCallers : CacheLock(g)
    \/ \E g \in GetCallers : CacheDoubleCheck(g)
    \/ \E g \in GetCallers, page \in PageLists, more \in BOOLEAN : FetchPageOk(g, page, more)
    \/ \E g \in GetCallers : FetchPageFail(g)
    \/ Tick

SpecCache == InitCache /\ [][NextCache]_vars

(***************************************************************************)
(* bybit.Client.doRequestWithRetry.                                        *)
(***************************************************************************)
\* line 138
maxRetries == 3

\* what client.Do gives: a response, whatever its status, or a transport
\* error
Responses == {"200 OK", "429 Too Many Requests", "500 Internal Server Error"}

DoErrors == {"timeout", "connection refused", "no such host"}

\* the requests GetCandles makes (line 155)
Requests == {[symbol |-> "BTCUSDT", interval |-> "1h"],
             [symbol |-> "ETHUSDT", interval |-> "4h"]}

InitRetry ==
    /\ inp = [symbol |-> "", interval |-> "", fetch |-> [err |-> TRUE, candles |-> <<>>],
              nowv |-> 0, strategies |-> <<>>]
    /\ cpc = "idle"
    /\ mres = <<>>
    /\ res = NoResult
    /\ TimerIdle
    /\ ScanIdle
    /\ client = NewClient
    /\ gpc = [g \in GetCallers |-> "idle"]
    /\ gret = [g \in GetCallers |-> NoReturn]
    /\ gfetch = [g \in GetCallers |-> NoFetch]
    /\ fetchLog = <<>>
    /\ \E req \in Requests :
          retry = [pc |-> "do", req |-> req, i |-> 0, tries |-> <<>>, resp |-> "nil",
                   err |-> "nil"]

\* the variables no step of doRequestWithRetry changes
retryFixed == <<inp, cpc, mres, res, timerVars, client, gpc, gret, gfetch, fetchLog, scanVars>>

MoreAttemptsInclusive(i) == i <= maxRetries

\* line 140: the loop condition
MoreAttempts(i) == i < maxRetries

\* lines 141-144: client.Do answers, and a response is returned at once
DoResponds(resp) ==
    /\ retry.pc = "do"
    /\ retry' = [retry EXCEPT !.tries = Append(@, resp), !.resp = resp, !.err = "nil",
                              !.pc = "returned"]
    /\ UNCHANGED retryFixed

\* lines 141-148: client.Do fails; the error is logged and the call sleeps
DoFails(err) ==
    /\ retry.pc = "do"
    /\ retry' = [retry EXCEPT !.tries = Append(@, err), !.resp = "nil", !.err = err,
                              !.pc = "sleep"]
    /\ UNCHANGED retryFixed

\* lines 148-150: the sleep ends, i++, and the loop goes round or the last
\* error is returned, wrapped
SleepEnds ==
    /\ retry.pc = "sleep"
    /\ retry' = [retry EXCEPT !.i = @ + 1,
                              !.pc = IF MoreAttempts(retry.i + 1) THEN "do" ELSE "returned"]
    /\ UNCHANGED retryFixed

NextRetry ==
    \/ \E resp \in Responses : DoResponds(resp)
    \/ \E err \in DoErrors : DoFails(err)
    \/ SleepEnds

\* the http.Client has a timeout and the sleep ends: a step that can be
\* taken is taken
SpecRetry == InitRetry /\ [][NextRetry]_vars /\ WF_vars(NextRetry)

(***************************************************************************)
(* telegram.Bot.SendSignals on its own: the caller hands it a signal list  *)
(* and the messages go out one SendMessage at a time.                      *)
(***************************************************************************)
\* a group that needs more than one message and fits in two
LargeGroup == maxSymbolsPerChunk + 20
MaxSignals == 120    \* longest signal list of one (pattern, interval) group
MaxMixed == 2        \* longest list over mixed patterns, intervals and trends

\* a Signal as checkSymbol builds it (lines 280-306), without its candles
SignalOf(symbol, interval, pattern, trend, count) ==
    [Symbol |-> symbol, Interval |-> interval, Pattern |-> pattern, Trend |-> trend,
     Price |-> 1, Timestamp |-> ScanClock, Candles |-> <<>>, ConsecutiveCount |-> count]

\* orders in which the goroutines of a scan may have appended their signals
Arrival(n, order, p) ==
    CASE order = "listing" -> p
      [] order = "reverse" -> n + 1 - p
      [] order = "alternate" -> IF 2 * p - 1 <= n THEN 2 * p - 1 ELSE 2 * (p - (n + 1) \div 2)

\* n signals of the ConsecutiveCandles rule on one interval: the first
\* nBullish to arrive are bullish, the run lengths are 3, 4 and 5
OneGroup(n, nBullish, order) ==
    [p \in 1..n |->
        LET j == Arrival(n, order, p)
        IN SignalOf(ListedSymbols[j], "1h", "TANG GIAM LIEN TUC",
                    IF p <= nBullish THEN "bullish" ELSE "bearish", 3 + (j % 3))]

\* signals of other groups that arrive in between
OtherGroups ==
    << SignalOf("XRPUSDT", "4h", "TANG GIAM LIEN TUC", "bearish", 3),
       SignalOf("ADAUSDT", "4h", "TANG GIAM LIEN TUC", "bullish", 4),
       SignalOf("SOLUSDT", "1h", "DAO CHIEU", "bullish", 0),
       SignalOf("ETHUSDT", "4h", "DAO CHIEU", "bearish", 0) >>

MixedSignals ==
    {SignalOf(sym, iv, pat[1], tr, pat[2]) :
        sym \in {"BTCUSDT", "ETHUSDT"}, iv \in {"1h", "4h"},
        pat \in {<<"DAO CHIEU", 0>>, <<"TANG GIAM LIEN TUC", 3>>, <<"TANG GIAM LIEN TUC", 4>>},
        tr \in {"bullish", "bearish"}}

GroupSizes == {maxSymbolsPerChunk - 1, maxSymbolsPerChunk, maxSymbolsPerChunk + 1, MaxSignals}

Splits(n) == {0, 1, n \div 2, n - 1, n}

SignalLists ==
    UNION {[1..n -> MixedSignals] : n \in 0..MaxMixed}
    \cup UNION {{OneGroup(n, b, "alternate") : b \in 0..n} : n \in LargeGroup..MaxSignals}
    \cup UNION {{OneGroup(n, b, order) : b \in Splits(n),
                                         order \in {"listing", "reverse", "alternate"}} :
                n \in GroupSizes}
    \cup {SubSeq(OneGroup(MaxSignals, b, "reverse"), 1, 50) \o OtherGroups
             \o SubSeq(OneGroup(MaxSignals, b, "reverse"), 51, MaxSignals) :
          b \in Splits(MaxSignals)}

InitSend ==
    /\ inp = [symbol |-> "", interval |-> "", fetch |-> [err |-> FALSE, candles |-> <<>>],
              nowv |-> ScanClock, strategies |-> <<>>]
    /\ cpc = "idle"
    /\ mres = <<>>
    /\ res = NoResult
    /\ TimerIdle
    /\ ClientIdle
    /\ \E signals \in SignalLists :
          CallerStart(IdleConfig, [c \in Callers |-> IF c = 0 THEN "send" ELSE "idle"],
                      [c \in Callers |-> IF c = 0 THEN signals ELSE <<>>])

NextSend ==
    \/ CallSendSignals(0)
    \/ SendMessageOk(0)
    \/ SendMessageFail(0)
    \/ SendSignalsReturn(0)

SpecSend == InitSend /\ [][NextSend]_vars

(***************************************************************************)
(* Vocabulary of the properties, stated on candles and not on the code's   *)
(* helpers.                                                                *)
(***************************************************************************)
IsGreen(c) == c.Close >= c.Open

SameColour(a, b) == IsGreen(a) <=> IsGreen(b)

\* the last four candles are three of one colour and one of the other
ShapeXXXY(w) ==
    LET n == Len(w)
    IN /\ SameColour(w[n - 3], w[n - 2])
       /\ SameColour(w[n - 2], w[n - 1])
       /\ ~SameColour(w[n - 1], w[n])

ShapeXXYY(w) ==
    LET n == Len(w)
    IN /\ SameColour(w[n - 3], w[n - 2])
       /\ ~SameColour(w[n - 2], w[n - 1])
       /\ SameColour(w[n - 1], w[n])

ShapeXYXY(w) ==
    LET n == Len(w)
    IN /\ ~SameColour(w[n - 3], w[n - 2])
       /\ ~SameColour(w[n - 2], w[n - 1])
       /\ ~SameColour(w[n - 1], w[n])

ShapeXXXX(w) ==
    LET n == Len(w)
    IN /\ SameColour(w[n - 3], w[n - 2])
       /\ SameColour(w[n - 2], w[n - 1])
       /\ SameColour(w[n - 1], w[n])

\* length of the trailing run of candles coloured like the newest one
TrailingRun(w) ==
    IF w = <<>> THEN 0
    ELSE CHOOSE k \in 1..Len(w) :
            /\ \A j \in (Len(w) - k + 1)..Len(w) : SameColour(w[j], Last(w))
            /\ k < Len(w) => ~SameColour(w[Len(w) - k], Last(w))

\* the rule is meant to fire on window w
RuleFires(s, w) ==
    IF s.kind = "TCR" THEN Len(w) >= 4 /\ ShapeXXXY(w)
    ELSE TrailingRun(w) >= s.MinCount

Fetched == inp.fetch.candles

\* start of the bar that is open at the time of the call
CurrentOpenStart == Truncate(inp.nowv, ParseInterval(inp.interval).d)

Trimmed == cpc = "checked" /\ res.outcome \in {"not_enough", "evaluated"} /\ Fetched # <<>>

\* C1: checkSymbol drops the last candle of a non-empty fetched series iff
\* its timestamp is the start of the currently open bar; otherwise the
\* series reaches the rules unchanged, and no candle stamped before the
\* open bar is ever removed.
C1_DropsLastIffOpenBar ==
    Trimmed =>
        /\ (Last(Fetched).Timestamp = CurrentOpenStart) => res.window = Front(Fetched)
        /\ (Last(Fetched).Timestamp # CurrentOpenStart) => res.window = Fetched
        /\ \A i \in 1..Len(Fetched) :
              Fetched[i].Timestamp < CurrentOpenStart =>
                 i <= Len(res.window) /\ res.window[i] = Fetched[i]

\* the forming candle was dropped and the four closed ones reached the rules
C1_Witness ==
    /\ Trimmed
    /\ res.outcome = "evaluated"
    /\ Last(Fetched).Timestamp = CurrentOpenStart
    /\ res.window = Front(Fetched)
    /\ Len(Fetched) = 5

\* C2: on a window of at least 4 candles ThreeCandleReversal.Match is true
\* iff the last four colours are XXXY with X # Y; it is false on XXYY, XYXY
\* and XXXX, whatever the earlier candles are.
C2_ReversalIffXXXY ==
    cpc = "matched" /\ Len(Fetched) >= 4 =>
        \A i \in 1..Len(inp.strategies) :
            inp.strategies[i].kind = "TCR" =>
                /\ ~mres[i].err
                /\ mres[i].matched <=> ShapeXXXY(Fetched)
                /\ (ShapeXXYY(Fetched) \/ ShapeXYXY(Fetched) \/ ShapeXXXX(Fetched))
                      => ~mres[i].matched

\* a reversal matched behind two earlier candles of mixed colour
C2_Witness ==
    /\ cpc = "matched"
    /\ Len(Fetched) = 6
    /\ inp.strategies[1].kind = "TCR"
    /\ mres[1].matched
    /\ ~SameColour(Fetched[1], Fetched[2])
    /\ ~SameColour(Fetched[2], Fetched[3])

\* C3: for every series and every MinCount n >= 1, ConsecutiveCandles(n)
\* matches iff the trailing run of candles coloured like the newest one is
\* at least n long.
C3_ConsecutiveIffRun ==
    cpc = "matched" =>
        \A i \in 1..Len(inp.strategies) :
            inp.strategies[i].kind = "CC" =>
                (mres[i].matched <=> TrailingRun(Fetched) >= inp.strategies[i].MinCount)

\* a run of exactly MinCount = 3 ending a longer series matched
C3_Witness ==
    /\ cpc = "matched"
    /\ inp.strategies[2] = NewConsecutiveCandles(3)
    /\ Len(Fetched) = 5
    /\ TrailingRun(Fetched) = 3
    /\ mres[2].matched

FormingCandles == {[Timestamp |-> CurrentOpenStart, Open |-> sh[1], Close |-> sh[2]] : sh \in Shapes}

ClosedSeries ==
    /\ cpc = "checked"
    /\ ~inp.fetch.err
    /\ ParseInterval(inp.interval).ok
    /\ Len(Fetched) >= 4
    /\ Last(Fetched).Timestamp < CurrentOpenStart

\* what a signal tells its reader
Told(sig) == [Pattern |-> sig.Pattern, Trend |-> sig.Trend, Candles |-> sig.Candles,
              Symbol |-> sig.Symbol, Interval |-> sig.Interval]

\* C4: a series S of at least 4 closed candles and S with one more candle
\* stamped at the current bar start (any prices) give the same signals -
\* names, trends, matched candles - and the added candle is in no signal.
C4_FormingCandleChangesNothing ==
    ClosedSeries =>
        \A f \in FormingCandles :
            LET with == CheckSymbol(inp.symbol, inp.interval,
                                    [err |-> FALSE, candles |-> Append(Fetched, f)],
                                    inp.nowv, inp.strategies)
            IN /\ Len(with.signals) = Len(res.signals)
               /\ \A k \in 1..Len(res.signals) :
                     /\ Told(with.signals[k]) = Told(res.signals[k])
                     /\ \A j \in 1..Len(with.signals[k].Candles) :
                           with.signals[k].Candles[j] # f

\* three reds and a closed green gave the bullish reversal
C4_Witness ==
    /\ ClosedSeries
    /\ Len(res.signals) = 1
    /\ res.signals[1].Pattern = "DAO CHIEU"
    /\ res.signals[1].Trend = "bullish"
    /\ res.signals[1].Candles = Fetched

FiringRules == {i \in 1..Len(inp.strategies) : RuleFires(inp.strategies[i], res.window)}

\* C7: for a window that is evaluated, the engine returns exactly one Signal
\* per enabled rule that matches it, named after the rule and carrying the
\* symbol and the interval, and none for a rule that does not match; two
\* rules matching the same window give two Signals.
C7_OneSignalPerMatchingRule ==
    cpc = "checked" /\ res.outcome = "evaluated" =>
        /\ Len(res.signals) = Cardinality(FiringRules)
        /\ \A k \in 1..Len(res.signals) :
              /\ res.signals[k].Symbol = inp.symbol
              /\ res.signals[k].Interval = inp.interval
              /\ \E i \in FiringRules : res.signals[k].Pattern = GetName(inp.strategies[i])
        /\ \A i \in FiringRules :
              \E k \in 1..Len(res.signals) : res.signals[k].Pattern = GetName(inp.strategies[i])
        /\ \A i, j \in FiringRules :
              i < j => /\ Len(res.signals) >= 2
                       /\ \E k, l \in 1..Len(res.signals) :
                             /\ k < l
                             /\ res.signals[k].Pattern = GetName(inp.strategies[i])
                             /\ res.signals[l].Pattern = GetName(inp.strategies[j])

\* the reversal and a one-candle run both matched the same window
C7_Witness ==
    /\ cpc = "checked"
    /\ res.outcome = "evaluated"
    /\ inp.strategies = <<NewThreeCandleReversal, NewConsecutiveCandles(1)>>
    /\ Len(res.signals) = 2
    /\ res.signals[1].Pattern = "DAO CHIEU"
    /\ res.signals[2].Pattern = "TANG GIAM LIEN TUC"

(***************************************************************************)
(* Properties of the scan.                                                 *)
(***************************************************************************)
\* the tasks of interval k that hold a token of the admission gate
InFlight(k) ==
    {s \in 1..NumSymbols : tpc[<<k, s>>] \in {"lock", "append", "release"}}

\* C5: within one scanInterval run the number of tasks past the admission
\* gate and not yet out of it never exceeds MaxConcurrency, also when tasks
\* of different batches overlap.
C5_InFlightBounded ==
    \A k \in Loops : Cardinality(InFlight(k)) <= config.MaxConcurrency

\* the gate is full and holds back a task of a later batch
C5_Witness ==
    \E k \in Loops :
        /\ config.BatchSize = 1
        /\ Cardinality(InFlight(k)) = config.MaxConcurrency
        /\ \E s \in 1..NumSymbols : tpc[<<k, s>>] = "sem" /\ \E r \in InFlight(k) : r < s

RECURSIVE BagOfSymbols(_, _)
BagOfSymbols(k, syms) ==
    IF syms = {} THEN EmptyBag
    ELSE LET s == CHOOSE x \in syms : TRUE
         IN SeqToBag(CheckSymbol(SymbolList[s], config.EnabledIntervals[k],
                                 [err |-> FALSE, candles |-> Market(s, config.EnabledIntervals[k])],
                                 ScanClock, BotStrategies).signals)
            (+) BagOfSymbols(k, syms \ {s})

\* the symbols of interval k whose fetch or interval parsing failed
FailedOf(k) == {s \in 1..NumSymbols : <<k, s>> \in failed}

\* the caller got its symbol list
SymbolsFetched(c) == IF c = 0 THEN nspawn > 0 ELSE ipc[c] # "new"

\* C6: a failure of GetCandles or of interval parsing for a set F of symbols
\* never aborts the scan: every other symbol is still evaluated, the result
\* of scanInterval is, as a multiset, that of the list without F, and the
\* failure is not returned by the scan.
C6_FetchFailureSkipsSymbol ==
    /\ \A k \in 1..NumIntervals :
          ipc[k] \in {"returned", "done"} =>
             /\ \A s \in 1..NumSymbols : tpc[<<k, s>>] = "done"
             /\ SeqToBag(isignals[k]) = BagOfSymbols(k, (1..NumSymbols) \ FailedOf(k))
    /\ \A c \in Callers :
          callerPc[c] = "done" /\ SymbolsFetched(c) /\ sendFailed[c] = <<>>
             => callerRet[c] = "nil"

\* one symbol's fetch failed, the other's signal was collected and the
\* one-shot scan returned nil
C6_Witness ==
    /\ callerPc[0] = "done"
    /\ callerRet[0] = "nil"
    /\ \E k \in 1..NumIntervals :
          /\ FailedOf(k) # {}
          /\ FailedOf(k) # 1..NumSymbols
          /\ isignals[k] # <<>>
          /\ ParseInterval(config.EnabledIntervals[k]).ok

\* C8: a scan calls SendSignals iff the collected signal list is non-empty;
\* when no rule matched any symbol nothing is delivered and the scan returns
\* without error.
C8_SendIffSignals ==
    \A c \in Callers :
        /\ sendCalls[c] <= 1
        /\ sendCalls[c] > 0 => collected[c] # <<>>
        /\ callerPc[c] \in {"sending", "done"} /\ collected[c] # <<>> => sendCalls[c] = 1
        /\ callerPc[c] = "done" /\ SymbolsFetched(c) /\ collected[c] = <<>>
              => callerRet[c] = "nil" /\ sendCalls[c] = 0

\* every fetch worked, no rule matched any symbol, the scan returned nil and
\* the sender was never called
C8_Witness ==
    \E c \in Callers :
        /\ callerPc[c] = "done"
        /\ callerRet[c] = "nil"
        /\ failed = {}
        /\ c > 0
        /\ \A s \in 1..NumSymbols : tpc[<<c, s>>] = "done"
        /\ collected[c] = <<>>
        /\ sendCalls[c] = 0

\* C9: when SendSignals fails the error is returned to the caller of the
\* scan (Start returns it in one-shot mode); a scan whose symbol-list fetch
\* and delivery both succeed returns nil.
C9_SendErrorReturned ==
    \A c \in Callers :
        callerPc[c] = "done" =>
            /\ sendFailed[c] # <<>> => callerRet[c] = "failed to send signals"
            /\ SymbolsFetched(c) /\ sendFailed[c] = <<>> => callerRet[c] = "nil"

\* the one-shot scan returned the delivery error
C9_Witness ==
    /\ config.RunOnce
    /\ callerPc[0] = "done"
    /\ sendFailed[0] # <<>>
    /\ sendCalls[0] = 1
    /\ callerRet[0] = "failed to send signals"

AllReturned == \A c \in Callers : callerPc[c] \in {"idle", "exited", "done"}

\* a message delivered to the chat lists the signal
Delivered(sig) ==
    \E i \in 1..Len(sent) :
        /\ sent[i].pattern = sig.Pattern
        /\ sent[i].interval = sig.Interval
        /\ \E j \in 1..Len(sent[i].bullish \o sent[i].bearish) :
              (sent[i].bullish \o sent[i].bearish)[j].symbol = sig.Symbol

\* the intervals of the messages whose delivery failed
FailingIntervals == {sendFailed[c][1].interval : c \in {x \in Callers : sendFailed[x] # <<>>}}

\* C10: a delivery failure for one interval's signals does not prevent the
\* delivery of the other enabled intervals' signals in the same cycle: once
\* the cycle is over, every other interval with a non-empty signal list has
\* had its signals sent.
C10_OtherIntervalsDelivered ==
    AllReturned =>
        \A k \in 1..NumIntervals :
            config.EnabledIntervals[k] \notin FailingIntervals =>
                \A i \in 1..Len(isignals[k]) : Delivered(isignals[k][i])

(***************************************************************************)
(* Properties of the sender.                                               *)
(***************************************************************************)
\* the list SendSignals was called with, and whether it has returned nil
Given == collected[0]

SentAll == callerPc[0] = "done" /\ sendCalls[0] = 1 /\ sendFailed[0] = <<>>

SideOf(sig) == IF sig.Trend = "bearish" THEN "bearish" ELSE "bullish"

\* what a message shows of a signal, and where
EntryOf(sig) ==
    [pattern |-> sig.Pattern, interval |-> sig.Interval, side |-> SideOf(sig),
     symbol |-> sig.Symbol, count |-> sig.ConsecutiveCount]

\* the entries of a message, in the order the message lists them
MessageEntries(m) ==
    [j \in 1..Len(m.body) |->
        [pattern |-> m.pattern, interval |-> m.interval, side |-> m.body[j].side,
         symbol |-> m.body[j].symbol, count |-> m.body[j].count]]

MessageSize(m) == Len(m.body)

TimesGiven(e) == Cardinality({i \in 1..Len(Given) : EntryOf(Given[i]) = e})

TimesSent(e) ==
    Cardinality({p \in (1..Len(sent)) \X (1..maxSymbolsPerChunk) :
                    /\ p[2] <= MessageSize(sent[p[1]])
                    /\ MessageEntries(sent[p[1]])[p[2]] = e})

\* C11: once SendSignals has returned nil, every message sent belongs to one
\* (pattern, interval) group and lists only signals of that group, and every
\* signal of the input is listed exactly as many times as the input holds
\* it: nothing is dropped, nothing is duplicated, nothing is invented.
C11_EverySignalSentOnce ==
    SentAll =>
        /\ \A i \in 1..Len(Given) : TimesSent(EntryOf(Given[i])) = TimesGiven(EntryOf(Given[i]))
        /\ \A m \in 1..Len(sent) : \A j \in 1..MessageSize(sent[m]) :
              TimesGiven(MessageEntries(sent[m])[j]) > 0

\* a chunked group and three other groups were sent in full
C11_Witness ==
    /\ SentAll
    /\ Len(Given) = MaxSignals + Len(OtherGroups)
    /\ Len(sent) = 6
    /\ \E m \in 1..Len(sent) : sent[m].totalChunks = 3

\* the input is one (pattern, interval) group
OneGroupGiven ==
    \A i \in 1..Len(Given) :
        Given[i].Pattern = Given[1].Pattern /\ Given[i].Interval = Given[1].Interval

\* C12: 120 signals of one rule and one interval go out as exactly two
\* messages, however the 120 divide into bullish and bearish.
C12_TwoMessagesFor120 ==
    SentAll /\ Len(Given) = LargeGroup /\ OneGroupGiven => Len(sent) = 2

\* the sides a message shows
Sides(m) == {m.body[j].side : j \in 1..Len(m.body)}

SameGroup(m, n) == m.pattern = n.pattern /\ m.interval = n.interval

\* rule name first, interval label second, both in string order
GroupBefore(m, n) ==
    \/ StringLess(m.pattern, n.pattern)
    \/ m.pattern = n.pattern /\ StringLess(m.interval, n.interval)

\* C13: of any two messages sent, the earlier one belongs to the same group
\* or to a group that comes first by rule name and then by interval label, so
\* a group's messages are sent together; within a group no bearish entry is
\* sent before a bullish one, neither inside a message nor across its chunks.
C13_GroupsInOrderBullishFirst ==
    /\ \A a \in 1..Len(sent) : \A b \in (a + 1)..Len(sent) :
          /\ SameGroup(sent[a], sent[b]) \/ GroupBefore(sent[a], sent[b])
          /\ SameGroup(sent[a], sent[b]) =>
                ~("bearish" \in Sides(sent[a]) /\ "bullish" \in Sides(sent[b]))
    /\ \A m \in 1..Len(sent) : \A j \in 1..(Len(sent[m].body) - 1) :
          ~(sent[m].body[j].side = "bearish" /\ sent[m].body[j + 1].side = "bullish")

\* four groups were sent: one in a bullish chunk followed by a bearish
\* chunk, one in a single message with both sides
C13_Witness ==
    /\ SentAll
    /\ Cardinality({<<sent[m].pattern, sent[m].interval>> : m \in 1..Len(sent)}) = 4
    /\ \E a \in 1..Len(sent) : \E b \in (a + 1)..Len(sent) :
          /\ SameGroup(sent[a], sent[b])
          /\ Sides(sent[a]) = {"bullish"} /\ Sides(sent[b]) = {"bearish"}
    /\ \E m \in 1..Len(sent) : Sides(sent[m]) = {"bullish", "bearish"}

\* the entries of one side of a message, in the order the message lists them
SideEntries(m, side) == SelectSeq(m.body, LAMBDA e : e.side = side)

\* x may stand before y: larger count first, equal counts by symbol name
Ranked(x, y) ==
    \/ x.count > y.count
    \/ x.count = y.count /\ (x.symbol = y.symbol \/ StringLess(x.symbol, y.symbol))

\* C14: in the messages of a group the bullish entries, read through all of
\* the group's chunks in the order sent, descend by count and, among equal
\* counts, ascend by symbol name; so do the bearish entries.
C14_SidesRankedAcrossChunks ==
    \A side \in {"bullish", "bearish"} :
        /\ \A m \in 1..Len(sent) :
              LET es == SideEntries(sent[m], side)
              IN \A j \in 1..(Len(es) - 1) : Ranked(es[j], es[j + 1])
        /\ \A a \in 1..Len(sent) : \A b \in (a + 1)..Len(sent) :
              LET ea == SideEntries(sent[a], side)
                  eb == SideEntries(sent[b], side)
              IN SameGroup(sent[a], sent[b]) /\ ea # <<>> /\ eb # <<>>
                    => Ranked(ea[Len(ea)], eb[1])

\* a bullish list that arrived out of order went out in two chunks, with
\* equal counts on both sides of the chunk boundary
C14_Witness ==
    /\ SentAll
    /\ Len(sent) = 2
    /\ Sides(sent[1]) = {"bullish"} /\ Sides(sent[2]) = {"bullish"}
    /\ SameGroup(sent[1], sent[2])
    /\ Given[1].Symbol # sent[1].body[1].symbol
    /\ sent[1].body[Len(sent[1].body)].count = sent[2].body[1].count

\* the number of input signals of a message's group, and the number of
\* messages sent for that group
GroupSize(m) ==
    Cardinality({i \in 1..Len(Given) :
                    Given[i].Pattern = m.pattern /\ Given[i].Interval = m.interval})

GroupMessageCount(m) == Cardinality({n \in 1..Len(sent) : SameGroup(sent[n], m)})

\* C15: every message sent lists at least one and at most maxSymbolsPerChunk
\* symbols; once everything is sent, a group of at most maxSymbolsPerChunk
\* signals has gone out as one message and a larger group as several.
C15_MessagesWithinLimit ==
    /\ \A m \in 1..Len(sent) :
          MessageSize(sent[m]) >= 1 /\ MessageSize(sent[m]) <= maxSymbolsPerChunk
    /\ SentAll =>
          \A m \in 1..Len(sent) :
              IF GroupSize(sent[m]) <= maxSymbolsPerChunk
              THEN GroupMessageCount(sent[m]) = 1
              ELSE GroupMessageCount(sent[m]) > 1

\* a group one signal over the limit went out as a full message and a
\* message of one symbol
C15_Witness ==
    /\ SentAll
    /\ Len(Given) = maxSymbolsPerChunk + 1
    /\ Len(sent) = 2
    /\ MessageSize(sent[1]) = maxSymbolsPerChunk
    /\ MessageSize(sent[2]) = 1
    /\ SameGroup(sent[1], sent[2])

(***************************************************************************)
(* Properties of checkSymbol under a TargetTime.                           *)
(***************************************************************************)
\* start of the bar that is open at the configured TargetTime
TargetOpenStart == Truncate(inp.targetTime, ParseInterval(inp.interval).d)

\* C16: with TargetTime set, checkSymbol drops the last candle of the
\* fetched series iff that candle is the bar open at TargetTime, whatever
\* the wall clock reads when the scan runs.
C16_TrimUsesTargetTime ==
    Trimmed /\ inp.targetTime > 0 =>
        /\ (Last(Fetched).Timestamp = TargetOpenStart) => res.window = Front(Fetched)
        /\ (Last(Fetched).Timestamp # TargetOpenStart) => res.window = Fetched

(***************************************************************************)
(* Further properties of checkSymbol and of the rules.                     *)
(***************************************************************************)
StrictlyIncreasing(candles) ==
    \A i \in 1..(Len(candles) - 1) : candles[i].Timestamp < candles[i + 1].Timestamp

\* C17: for a series with strictly increasing timestamps, trimming the
\* window checkSymbol has already trimmed, at the same clock reading, removes
\* nothing more; and a series without a candle of the open bar comes out of
\* the trim as it went in.
C17_TrimIdempotent ==
    Trimmed /\ StrictlyIncreasing(Fetched) =>
        /\ TrimOpenCandle(res.window, inp.nowv, ParseInterval(inp.interval).d) = res.window
        /\ (\A i \in 1..Len(Fetched) : Fetched[i].Timestamp # CurrentOpenStart)
              => res.window = Fetched

\* the forming candle of a three-candle series was dropped, and a second
\* trim leaves the two closed candles alone
C17_Witness ==
    /\ Trimmed
    /\ Len(Fetched) = 3
    /\ StrictlyIncreasing(Fetched)
    /\ Last(Fetched).Timestamp = CurrentOpenStart
    /\ Len(res.window) = 2
    /\ TrimOpenCandle(res.window, inp.nowv, ParseInterval(inp.interval).d) = res.window

\* the rules' answers to the series as fetched
Asked == cpc = "matched"

\* C18 as stated: Match returns an error iff the window is shorter than the
\* rule's GetRequiredCandles, and a window of length 3 gives an error and no
\* match for every rule.
C18_ErrorBelowRequiredCandles ==
    Asked =>
        \A i \in 1..Len(inp.strategies) :
            /\ mres[i].err <=> Len(Fetched) < GetRequiredCandles(inp.strategies[i])
            /\ Len(Fetched) = 3 => mres[i].err /\ ~mres[i].matched

\* C18 amended: Match returns an error iff the window is shorter than one
\* less than the rule's GetRequiredCandles (4 for ThreeCandleReversal,
\* MinCount for ConsecutiveCandles); an error comes with no match, and a
\* window of length 3 makes ThreeCandleReversal return an error.
C18_ErrorBelowCandlesRead ==
    Asked =>
        \A i \in 1..Len(inp.strategies) :
            /\ mres[i].err <=> Len(Fetched) < GetRequiredCandles(inp.strategies[i]) - 1
            /\ mres[i].err => ~mres[i].matched
            /\ Len(Fetched) = 3 /\ inp.strategies[i].kind = "TCR" => mres[i].err

\* on three candles the reversal rule returns an error, ConsecutiveCandles(3)
\* does not
C18_Witness ==
    /\ Asked
    /\ Len(Fetched) = 3
    /\ inp.strategies[1].kind = "TCR" /\ mres[1].err /\ ~mres[1].matched
    /\ inp.strategies[2].kind = "CC" /\ inp.strategies[2].MinCount = 3 /\ ~mres[2].err

\* the colours of the last four candles of w, oldest first; TRUE is green
LastFourGreen(w) == [i \in 1..4 |-> IsGreen(w[Len(w) - 4 + i])]

\* C19: a ThreeCandleReversal signal is bullish exactly when the last four
\* closed candles are red, red, red, green and bearish exactly when they are
\* green, green, green, red; a ConsecutiveCandles signal is bullish exactly
\* when its trailing run is green and bearish exactly when it is red.
C19_TrendFollowsShape ==
    cpc = "checked" /\ res.outcome = "evaluated" =>
        \A i \in 1..Len(res.signals) :
            LET sig == res.signals[i]
            IN /\ sig.Trend \in {"bullish", "bearish"}
               /\ sig.Pattern = "DAO CHIEU" =>
                     /\ sig.Trend = "bullish"
                           <=> LastFourGreen(res.window) = <<FALSE, FALSE, FALSE, TRUE>>
                     /\ sig.Trend = "bearish"
                           <=> LastFourGreen(res.window) = <<TRUE, TRUE, TRUE, FALSE>>
               /\ sig.Pattern = "TANG GIAM LIEN TUC" =>
                     /\ sig.Trend = "bullish" <=> IsGreen(Last(res.window))
                     /\ sig.Trend = "bearish" <=> ~IsGreen(Last(res.window))

\* green, green, green, red gave a bearish reversal signal and a bearish
\* run signal
C19_Witness ==
    /\ cpc = "checked"
    /\ res.outcome = "evaluated"
    /\ LastFourGreen(res.window) = <<TRUE, TRUE, TRUE, FALSE>>
    /\ Len(res.signals) = 2
    /\ res.signals[1].Pattern = "DAO CHIEU" /\ res.signals[1].Trend = "bearish"
    /\ res.signals[2].Pattern = "TANG GIAM LIEN TUC" /\ res.signals[2].Trend = "bearish"

MaxAppend == 2       \* most candles appended to a fetched series

\* the series w continued by k candles coloured like the newest candle of w
Continued(w, k) ==
    {w \o [j \in 1..k |-> [Timestamp |-> Last(w).Timestamp + j * Spacing(inp.interval),
                            Open |-> shapes[j][1], Close |-> shapes[j][2]]] :
        shapes \in [1..k -> {sh \in Shapes : (sh[2] >= sh[1]) <=> IsGreen(Last(w))}]}

\* C20: appending candles of the newest candle's colour to a non-empty
\* series raises countConsecutive by one per candle, and every
\* ConsecutiveCandles rule that matched the series matches the longer one.
C20_RunGrowsWithSameColour ==
    Asked /\ Fetched # <<>> =>
        \A k \in 1..MaxAppend : \A longer \in Continued(Fetched, k) :
            /\ countConsecutive(longer) = countConsecutive(Fetched) + k
            /\ \A i \in 1..Len(inp.strategies) :
                  inp.strategies[i].kind = "CC" /\ mres[i].matched
                     => Match(inp.strategies[i], longer).matched

\* a run of two matched ConsecutiveCandles(1) and ConsecutiveCandles(2), and
\* with one more candle of that colour the run is three
C20_Witness ==
    /\ Asked
    /\ Len(Fetched) = 3
    /\ countConsecutive(Fetched) = 2
    /\ inp.strategies[1].kind = "CC" /\ mres[1].matched
    /\ inp.strategies[2].kind = "CC" /\ inp.strategies[2].MinCount = 2 /\ mres[2].matched
    /\ \A longer \in Continued(Fetched, 1) : countConsecutive(longer) = 3

(***************************************************************************)
(* The signal collection of one scanInterval run.                          *)
(***************************************************************************)
\* the tasks of interval k that are between mu.Lock() and mu.Unlock()
InAppend(k) == {s \in 1..NumSymbols : tpc[<<k, s>>] = "append"}

\* what the tasks of the symbols syms of interval k got from checkSymbol
RECURSIVE BagOfTasks(_, _)
BagOfTasks(k, syms) ==
    IF syms = {} THEN EmptyBag
    ELSE LET s == CHOOSE x \in syms : TRUE
         IN SeqToBag(tsig[<<k, s>>]) (+) BagOfTasks(k, syms \ {s})

\* the signal list checkSymbol gives for symbol s of interval k
SymbolSignals(k, s) ==
    IF <<k, s>> \in failed THEN <<>>
    ELSE CheckSymbol(SymbolList[s], config.EnabledIntervals[k],
                     [err |-> FALSE, candles |-> Market(s, config.EnabledIntervals[k])],
                     ScanClock, BotStrategies).signals

\* C25: at most one task of an interval is inside the append at any instant;
\* the dispatcher hands out the symbols of the list batch by batch, each
\* once; scanInterval returns only after every task has finished, and the
\* returned list is then, as a multiset, the union of the signal lists of
\* all symbols: nothing lost, nothing twice.
C25_AppendsSerialisedUnionReturned ==
    \A k \in 1..NumIntervals :
        /\ Cardinality(InAppend(k)) <= 1
        /\ ipc[k] = "spawn" => bi[k] <= nxt[k] /\ nxt[k] < BatchEnd(bi[k])
        /\ ipc[k] \in {"returned", "done"} =>
              /\ nxt[k] = Len(SymbolList)
              /\ \A s \in 1..NumSymbols :
                    tpc[<<k, s>>] = "done" /\ tsig[<<k, s>>] = SymbolSignals(k, s)
              /\ SeqToBag(isignals[k]) = BagOfTasks(k, 1..NumSymbols)

\* two tasks had signals, the later symbol's task took the mutex first and
\* the list returned holds both
C25_Witness ==
    \E k \in 1..NumIntervals :
        /\ ipc[k] = "returned"
        /\ tsig[<<k, 1>>] # <<>>
        /\ tsig[<<k, 2>>] # <<>>
        /\ isignals[k] = tsig[<<k, 2>>] \o tsig[<<k, 1>>]

(***************************************************************************)
(* The gate between the trim and the rules.                                *)
(***************************************************************************)
\* the least of the candle counts the enabled rules require
MinRequired(strats) ==
    CHOOSE n \in {GetRequiredCandles(strats[i]) : i \in 1..Len(strats)} :
        \A i \in 1..Len(strats) : n <= GetRequiredCandles(strats[i])

\* checkSymbol got a series and reached the gate
ReachedGate ==
    /\ cpc = "checked"
    /\ ~inp.fetch.err
    /\ Fetched = <<>> \/ ParseInterval(inp.interval).ok

\* the series as it is after the trim
AfterTrim ==
    IF Fetched = <<>> THEN Fetched
    ELSE TrimOpenCandle(Fetched, inp.nowv, ParseInterval(inp.interval).d)

\* C26: with the rules the bot enables, a series that after the trim has
\* fewer candles than the least required count of those rules is skipped:
\* checkSymbol returns before any rule is asked, with no signal (it has no
\* error to return).
C26_SkippedBelowMinimum ==
    /\ ReachedGate
    /\ inp.strategies = BotStrategies
    /\ Len(AfterTrim) < MinRequired(inp.strategies)
    => /\ res.outcome = "not_enough"
       /\ res.signals = <<>>
       /\ res.window = AfterTrim

\* four candles were fetched, three of one colour were left by the trim and
\* the run rule, whose MinCount they reach, was not asked
C26_Witness ==
    /\ ReachedGate
    /\ inp.strategies = BotStrategies
    /\ Len(Fetched) = 4
    /\ Len(AfterTrim) = 3
    /\ TrailingRun(AfterTrim) = 3
    /\ res.outcome = "not_enough"
    /\ res.signals = <<>>

(***************************************************************************)
(* How many candles checkSymbol asks the source for.                       *)
(***************************************************************************)
\* the greatest of the candle counts the enabled rules require
MaxRequiredCount(strats) ==
    CHOOSE n \in {GetRequiredCandles(strats[i]) : i \in 1..Len(strats)} :
        \A i \in 1..Len(strats) : n >= GetRequiredCandles(strats[i])

\* the source returned as many candles as were asked for, the forming one last
FullWithForming ==
    /\ ReachedGate
    /\ ParseInterval(inp.interval).ok
    /\ Len(Fetched) = res.requested
    /\ Last(Fetched).Timestamp = CurrentOpenStart

\* no rule of the list fails on window w for want of candles
NoRuleStarved(strats, w) == \A i \in 1..Len(strats) : ~Match(strats[i], w).err

\* C27 as stated: checkSymbol asks for one candle more than the greatest
\* required count of the enabled rules, and a full answer with the forming
\* candle last leaves at least that count of closed candles.
C27_RequestsOneExtra ==
    cpc = "checked" =>
        /\ res.requested = MaxRequiredCount(inp.strategies) + 1
        /\ FullWithForming =>
              /\ Len(AfterTrim) >= MaxRequiredCount(inp.strategies)
              /\ NoRuleStarved(inp.strategies, AfterTrim)

\* C27, amended: checkSymbol asks for exactly the greatest required count of
\* the enabled rules; a full answer with the forming candle last leaves one
\* candle less than that, which is enough for every enabled rule's Match,
\* and with the bot's rules the window is evaluated.
C27_RequestsMaxRequired ==
    cpc = "checked" =>
        /\ res.requested = MaxRequiredCount(inp.strategies)
        /\ FullWithForming =>
              /\ Len(AfterTrim) = MaxRequiredCount(inp.strategies) - 1
              /\ NoRuleStarved(inp.strategies, AfterTrim)
              /\ inp.strategies = BotStrategies =>
                    res.outcome = "evaluated" /\ res.window = AfterTrim

\* five candles were asked for and returned, the fifth forming; the four
\* closed ones were evaluated and gave the reversal
C27_Witness ==
    /\ FullWithForming
    /\ inp.strategies = BotStrategies
    /\ res.requested = 5
    /\ Len(res.window) = 4
    /\ res.outcome = "evaluated"
    /\ \E k \in 1..Len(res.signals) : res.signals[k].Pattern = "DAO CHIEU"

(***************************************************************************)
(* Rules that fail on a window.                                            *)
(***************************************************************************)
\* the rules of the list that return an error on window w
Failing(strats, w) == {i \in 1..Len(strats) : Match(strats[i], w).err}

\* the names of the rules that are meant to fire on w, in list order
FiringNames(strats, w) ==
    LET idx == SelectSeq([i \in 1..Len(strats) |-> i],
                         LAMBDA i : RuleFires(strats[i], w))
    IN [k \in 1..Len(idx) |-> GetName(strats[idx[k]])]

\* C28: when a rule's Match returns an error on the window of a symbol, that
\* rule gives no signal and the other rules are still asked about the same
\* window: the signals are those of the rules that fire on it, in list
\* order, also when the failing rule is the first of the list.
C28_RuleErrorOmitsOnlyThatRule ==
    cpc = "checked" /\ res.outcome = "evaluated" /\ Failing(inp.strategies, res.window) # {} =>
        /\ [k \in 1..Len(res.signals) |-> res.signals[k].Pattern]
              = FiringNames(inp.strategies, res.window)
        /\ \A k \in 1..Len(res.signals) :
              /\ res.signals[k].Candles = LastN(res.window, 4)
              /\ \A i \in Failing(inp.strategies, res.window) :
                    res.signals[k].Pattern # GetName(inp.strategies[i])

\* the run rule with MinCount 5 came first and failed on four candles; the
\* reversal rule after it was still asked and gave its signal
C28_Witness ==
    /\ cpc = "checked"
    /\ res.outcome = "evaluated"
    /\ inp.strategies = <<NewConsecutiveCandles(5), NewThreeCandleReversal>>
    /\ Len(res.window) = 4
    /\ Failing(inp.strategies, res.window) = {1}
    /\ Len(res.signals) = 1
    /\ res.signals[1].Pattern = "DAO CHIEU"

(***************************************************************************)
(* The candles a signal carries.                                           *)
(***************************************************************************)
\* the trailing candles of w that rule s reads in Match: the reversal rule
\* its last four, the run rule the run and the candle that ends it
CandlesRead(s, w) ==
    IF s.kind = "TCR" THEN LastN(w, 4)
    ELSE LastN(w, IF TrailingRun(w) < Len(w) THEN TrailingRun(w) + 1 ELSE Len(w))

\* the bars of the symbol's history that are closed at the time of the call
ClosedHistory == SelectSeq(inp.history, LAMBDA c : c.Timestamp < CurrentOpenStart)

\* the rule of the list that signal sig is named after
RuleOf(sig) == CHOOSE i \in 1..Len(inp.strategies) : GetName(inp.strategies[i]) = sig.Pattern

Emitted == cpc = "checked" /\ res.outcome = "evaluated"

OnlyClosed(candles) == \A j \in 1..Len(candles) : candles[j].Timestamp < CurrentOpenStart

\* C29 as stated: the candles of every emitted signal are exactly the
\* trailing candles its rule read from the trimmed series, all of them closed,
\* the last one the last closed candle.
C29_CandlesAreWindowRead ==
    Emitted =>
        \A k \in 1..Len(res.signals) :
            /\ res.signals[k].Candles
                  = CandlesRead(inp.strategies[RuleOf(res.signals[k])], res.window)
            /\ OnlyClosed(res.signals[k].Candles)
            /\ Last(res.signals[k].Candles) = Last(ClosedHistory)

\* C29, amended: the candles of every emitted signal are exactly the last
\* four candles of the trimmed series - what a reversal rule read -, all of
\* them closed, the last one the last closed candle.
C29_CandlesAreLastFour ==
    Emitted =>
        \A k \in 1..Len(res.signals) :
            /\ res.signals[k].Candles = LastN(res.window, 4)
            /\ inp.strategies[RuleOf(res.signals[k])].kind = "TCR" =>
                  res.signals[k].Candles
                     = CandlesRead(inp.strategies[RuleOf(res.signals[k])], res.window)
            /\ OnlyClosed(res.signals[k].Candles)
            /\ Last(res.signals[k].Candles) = Last(ClosedHistory)

\* five closed candles of one colour came back from the source; the run rule
\* read all five and its signal carries the last four
C29_Witness ==
    /\ Emitted
    /\ inp.strategies = BotStrategies
    /\ Len(res.window) = 5
    /\ TrailingRun(res.window) = 5
    /\ Len(res.signals) = 1
    /\ res.signals[1].Pattern = "TANG GIAM LIEN TUC"
    /\ res.signals[1].Candles = LastN(res.window, 4)
    /\ res.signals[1].Candles # CandlesRead(inp.strategies[2], res.window)

(***************************************************************************)
(* The count a signal carries.                                             *)
(***************************************************************************)
\* C30: the count carried by a signal of the run rule is the number of
\* trailing same-coloured candles in the symbol's closed candle series,
\* however long that run is; a reversal signal carries 0.
C30_CountIsRunLength ==
    Emitted =>
        \A k \in 1..Len(res.signals) :
            IF inp.strategies[RuleOf(res.signals[k])].kind = "CC"
            THEN res.signals[k].ConsecutiveCount = TrailingRun(ClosedHistory)
            ELSE res.signals[k].ConsecutiveCount = 0

(***************************************************************************)
(* The goroutines of one scanInterval run.                                 *)
(***************************************************************************)
\* the per-symbol goroutines of interval k that were started (line 200) and
\* have not returned
Goroutines(k) == {s \in 1..NumSymbols : tpc[<<k, s>>] \notin {"new", "done"}}

\* C23: at no instant of a scan do more than MaxConcurrency per-symbol
\* goroutines of an interval exist.
C23_GoroutinesBounded ==
    \A k \in Loops : Cardinality(Goroutines(k)) <= config.MaxConcurrency

(***************************************************************************)
(* Termination of a scan.                                                  *)
(***************************************************************************)
\* every scanInterval run that was started has returned, and so has every
\* call of scan or of an interval's loop body
ScanOver ==
    /\ \A c \in Callers : callerPc[c] \in {"idle", "exited", "done"}
    /\ \A k \in Loops : ipc[k] \in {"new", "done"}

\* C24: with BatchSize >= 1 and MaxConcurrency >= 1, under fair scheduling
\* and with provider and sender calls that return, scanInterval and the scan
\* that called it eventually return: the admission gate, the mutex and the
\* wait barrier never leave the scan stuck.
C24_ScanRunsToCompletion == <>ScanOver

\* a one-shot scan returned after two tasks of one batch had to pass a gate
\* of one token one after the other, both appending
C24_Witness ==
    /\ callerPc[0] = "done"
    /\ config.BatchSize >= 2
    /\ config.MaxConcurrency = 1
    /\ \A k \in 1..NumIntervals : ipc[k] = "done"
    /\ \E k \in 1..NumIntervals : tsig[<<k, 1>>] # <<>> /\ tsig[<<k, 2>>] # <<>>

(***************************************************************************)
(* The loops of the enabled intervals side by side.                        *)
(***************************************************************************)
\* the loop of interval k has not ended its cycle
Running(k) == callerPc[k] \notin {"idle", "exited", "done"}

\* the loop of interval j waits for a provider call or for the sender: its
\* symbol list, a symbol's candles, or the delivery of a message
Blocked(j) ==
    \/ callerPc[j] = "getSymbols"
    \/ callerPc[j] = "scanning" /\ \E s \in 1..NumSymbols : tpc[<<j, s>>] = "sem"
    \/ callerPc[j] = "sending" /\ pending[j] # <<>>

LoopDuration == ParseInterval(loopInterval).d

\* t is the instant a bar of the loop's interval closes
BarClose(t) == Truncate(t, LoopDuration) = t

\* the first bar-close boundary after instant t
BoundaryAfter(t) == Truncate(t, LoopDuration) + LoopDuration

\* C22: for every supported interval each scan of its loop starts at a
\* bar-close boundary plus the settle delay, and when a scan has finished
\* before the next bar-close boundary the next scan starts exactly one
\* interval duration after it: no closed bar is skipped.
C22_EveryBarScanned ==
    loopInterval \in SupportedIntervals =>
        /\ \A i \in 1..Len(scans) : BarClose(scans[i].start - SettleDelay)
        /\ \A i \in 1..(Len(scans) - 1) :
              scans[i].end < BoundaryAfter(scans[i].start)
                 => scans[i + 1].start = scans[i].start + LoopDuration

(***************************************************************************)
(* The rule set the bot is built with.                                     *)
(***************************************************************************)
BuiltIn == inp.strategies = BotStrategies

BothMatch(w) == \A i \in 1..Len(BotStrategies) : Match(BotStrategies[i], w).matched

\* the last four candles are three reds and then a green
ThreeRedsThenGreen(w) ==
    /\ Len(w) >= 4
    /\ \A j \in 1..3 : Color(w[Len(w) - j]) = ColorRed
    /\ Color(Last(w)) = ColorGreen

\* C32: with the rule set the bot is built with (the reversal rule and the
\* run rule with a minimum of three) no window matches both rules, so
\* checkSymbol returns at most one signal; a window that ends with three reds
\* and a closed green gives the reversal signal and nothing else.
C32_BuiltInRulesExclusive ==
    (cpc = "checked" /\ BuiltIn) =>
        /\ ~BothMatch(AfterTrim)
        /\ Len(res.signals) <= 1
        /\ (Emitted /\ ThreeRedsThenGreen(AfterTrim)) =>
              /\ Len(res.signals) = 1
              /\ res.signals[1].Pattern = GetName(NewThreeCandleReversal)

\* the green candle that follows three reds is closed, is kept by the trim,
\* and the reversal signal is the only one
C32_Witness ==
    /\ cpc = "checked"
    /\ BuiltIn
    /\ Emitted
    /\ AfterTrim = Fetched
    /\ ThreeRedsThenGreen(AfterTrim)
    /\ Len(res.signals) = 1

(***************************************************************************)
(* The symbol list of a scan cycle.                                        *)
(***************************************************************************)
\* the caller whose symbol list the scan of interval k works on: scan() in
\* one-shot mode, the interval's own scanSpecificInterval otherwise
ListOwner(k) == IF config.RunOnce THEN 0 ELSE k

\* the candles of symbol s on interval k were asked for
CandlesAsked(k, s) == tpc[<<k, s>>] \notin {"new", "sem"}

\* scanInterval of interval k has left its dispatch loop
Dispatched(k) == ipc[k] \in {"wait", "returned", "done"}

\* C31: a scan cycle asks the provider for the symbol list exactly once.  A
\* one-shot scan calls GetSymbols once, before any interval's scan starts
\* and before any candle is asked for, however many intervals are enabled,
\* and every interval dispatches over the whole of that list; in continuous
\* mode every scan of an interval calls it once, and the interval goroutines
\* never call it themselves in one-shot mode.
C31_SymbolsFetchedOncePerScan ==
    /\ \A c \in Callers :
          /\ symbolCalls[c] <= 1
          /\ callerPc[c] \in {"idle", "loop", "exited", "getSymbols"} <=> symbolCalls[c] = 0
    /\ config.RunOnce => \A k \in Loops : symbolCalls[k] = 0
    /\ \A k \in 1..NumIntervals :
          /\ ipc[k] # "new" => symbolCalls[ListOwner(k)] = 1
          /\ \A s \in 1..NumSymbols :
                CandlesAsked(k, s) => symbolCalls[ListOwner(k)] = 1
          /\ Dispatched(k) => nxt[k] = Len(SymbolList)

\* a one-shot scan over two intervals is over, both intervals went through
\* the whole list, and the provider was asked for the list once
C31_Witness ==
    /\ config.RunOnce
    /\ callerPc[0] = "done"
    /\ NumIntervals = 2
    /\ \A k \in 1..NumIntervals :
          /\ nxt[k] = Len(SymbolList)
          /\ \A s \in 1..NumSymbols : CandlesAsked(k, s)
    /\ symbolCalls[0] = 1

(***************************************************************************)
(* A scan whose symbol list cannot be had.                                 *)
(***************************************************************************)
\* the intervals whose scan works on the symbol list of caller c
IntervalsOf(c) == {k \in 1..NumIntervals : ListOwner(k) = c}

\* nothing of a scan of caller c has happened beyond its GetSymbols call
NothingScanned(c) ==
    /\ c = 0 => nspawn = 0 /\ signalsChan = <<>>
    /\ \A k \in IntervalsOf(c) :
          /\ ipc[k] = "new"
          /\ isignals[k] = <<>>
          /\ \A s \in 1..NumSymbols : tpc[<<k, s>>] = "new"
    /\ collected[c] = <<>>
    /\ sendCalls[c] = 0
    /\ sent = <<>>

\* C33: when GetSymbols fails the scan returns an error that wraps the
\* failure, and no candle is fetched, no rule evaluated and SendSignals is
\* not called; in continuous mode the loop only logs what the scan returned
\* and goes round: it never exits on it, and it sleeps until the next bar
\* boundary after the failed scan.
C33_SymbolListFailure ==
    /\ \A c \in Callers :
          /\ callerPc[c] = "done" /\ ~SymbolsFetched(c)
                => callerRet[c] = "failed to get symbols"
          /\ callerRet[c] = "failed to get symbols"
                => callerPc[c] = "done" /\ symbolCalls[c] = 1 /\ NothingScanned(c)
    /\ loopInterval \in SupportedIntervals =>
          /\ lpc # "exited"
          /\ \A i \in 1..Len(scans) :
                scans[i].over /\ scans[i].err # "nil"
                   => \/ i < Len(scans) /\ scans[i + 1].start > scans[i].end
                      \/ i = Len(scans) /\ lpc = "top"
                      \/ i = Len(scans) /\ lpc = "sleeping"
                            /\ next = NextWake(scans[i].end, LoopDuration)

\* the first scan of a loop failed to get the symbol list and the loop has
\* started its next scan
C33_Witness ==
    /\ Len(scans) >= 2
    /\ scans[1].err = "failed to get symbols"
    /\ lpc = "scanning"

(***************************************************************************)
(* The one-shot scan: its interval goroutines and its result channel.      *)
(***************************************************************************)
\* the intervals whose goroutine has put its result into signalsChan
Published == {k \in 1..NumIntervals : ipc[k] = "done"}

\* the signals of the first n intervals, as a multiset
RECURSIVE MergedSignals(_)
MergedSignals(n) ==
    IF n = 0 THEN EmptyBag ELSE SeqToBag(isignals[n]) (+) MergedSignals(n - 1)

\* C34: in one-shot mode the scan starts the goroutine of every enabled
\* interval without waiting for an earlier one, each goroutine puts its
\* result into signalsChan exactly once and never has to wait for room, as
\* the channel holds as many results as there are intervals, and SendSignals
\* is called at most once, after every interval's scan has finished, with
\* the signals of all intervals together.
C34_OneShotMergesAllIntervals ==
    config.RunOnce =>
        /\ callerPc[0] = "spawn" => ENABLED SpawnInterval
        /\ \A k \in 1..NumIntervals : ipc[k] = "returned" => ENABLED Publish(k)
        /\ callerPc[0] \in {"spawn", "wait"} => Len(signalsChan) = Cardinality(Published)
        /\ \A i \in 1..Len(signalsChan) :
              \E k \in Published : signalsChan[i] = isignals[k]
        /\ sendCalls[0] <= 1
        /\ \A k \in Loops : sendCalls[k] = 0
        /\ callerPc[0] \in {"send", "sending"} \/ sendCalls[0] = 1 =>
              /\ Published = 1..NumIntervals
              /\ \A t \in (1..NumIntervals) \X (1..NumSymbols) : tpc[t] = "done"
              /\ SeqToBag(collected[0]) = MergedSignals(NumIntervals)

\* a one-shot scan over two intervals that both found signals has called the
\* sender once, with more signals than the first interval alone found
C34_Witness ==
    /\ config.RunOnce
    /\ callerPc[0] = "sending"
    /\ sendCalls[0] = 1
    /\ \A k \in 1..NumIntervals : isignals[k] # <<>>
    /\ Len(collected[0]) > Len(isignals[1])

(***************************************************************************)
(* The admission gates of the intervals of one scan.                       *)
(***************************************************************************)
\* the per-symbol evaluations in flight, over all intervals
TotalInFlight == UNION {{<<k, s>> : s \in InFlight(k)} : k \in Loops}

\* the intervals that have an evaluation in flight
BusyIntervals == {k \in Loops : InFlight(k) # {}}

\* C35: every scanInterval call has an admission gate of its own.  A task
\* is admitted whenever fewer than MaxConcurrency tasks of its own interval
\* are in flight, whatever the other intervals do, so the evaluations in
\* flight over all intervals are bounded by MaxConcurrency times the number
\* of intervals being scanned, and by MaxConcurrency when that is one.
C35_GatePerInterval ==
    /\ \A k \in Loops : sem[k] = Cardinality(InFlight(k))
    /\ \A k \in 1..NumIntervals : \A s \in 1..NumSymbols :
          tpc[<<k, s>>] = "sem" /\ Cardinality(InFlight(k)) < config.MaxConcurrency
             => ENABLED CheckFetched(k, s)
    /\ Cardinality(TotalInFlight) <= Cardinality(BusyIntervals) * config.MaxConcurrency
    /\ Cardinality(TotalInFlight) <= NumIntervals * config.MaxConcurrency
    /\ ~config.RunOnce => Cardinality(TotalInFlight) <= config.MaxConcurrency

\* a one-shot scan over two intervals with more evaluations in flight than
\* MaxConcurrency: each interval has filled its own gate
C35_Witness ==
    /\ config.RunOnce
    /\ NumIntervals = 2
    /\ \A k \in 1..NumIntervals : Cardinality(InFlight(k)) = config.MaxConcurrency
    /\ Cardinality(TotalInFlight) = 2 * config.MaxConcurrency
    /\ Cardinality(TotalInFlight) > config.MaxConcurrency

(***************************************************************************)
(* Settings that are not positive.                                         *)
(***************************************************************************)
\* scanInterval was called for interval k
Called(k) == ipc[k] # "new"

\* C36: scanInterval takes BatchSize and MaxConcurrency as they are.  With
\* BatchSize = 0 and a symbol list that is not empty the dispatch index
\* stays at 0 and no goroutine is started; with MaxConcurrency = 0 no task
\* gets past the admission gate; either way no scanInterval call returns,
\* the scan that made it does not return, and nothing is delivered.
C36_NonPositiveSettingsHang ==
    Len(SymbolList) > 0 /\ (config.BatchSize = 0 \/ config.MaxConcurrency = 0) =>
        /\ \A k \in Loops : ipc[k] \notin {"returned", "done"}
        /\ config.BatchSize = 0 =>
              \A k \in Loops : Called(k) =>
                 /\ bi[k] = 0
                 /\ nxt[k] = 0
                 /\ ipc[k] \in {"spawn", "sleep"}
        /\ config.MaxConcurrency = 0 =>
              \A t \in Tasks : tpc[t] \in {"new", "sem"}
        /\ \A c \in Callers :
              /\ callerPc[c] = "done" => callerRet[c] = "failed to get symbols"
              /\ collected[c] = <<>>
              /\ sendCalls[c] = 0
        /\ sent = <<>>

\* MaxConcurrency is 0: every symbol's goroutine of a one-shot scan waits at
\* the gate, every dispatcher waits for them, and no step is left
C36_Witness ==
    /\ config.MaxConcurrency = 0
    /\ config.BatchSize > 0
    /\ config.RunOnce
    /\ \A k \in 1..NumIntervals : ipc[k] = "wait"
    /\ \A t \in (1..NumIntervals) \X (1..NumSymbols) : tpc[t] = "sem"
    /\ ~ENABLED NextSettings

(***************************************************************************)
(* An enabled interval whose label ParseInterval rejects.                  *)
(***************************************************************************)
Parses(k) == ParseInterval(config.EnabledIntervals[k]).ok

\* Start has returned from continuous mode: every loop has exited
StartReturned == \A k \in 1..NumIntervals : callerPc[k] = "exited"

\* C37: an enabled interval whose label ParseInterval rejects never gives a
\* signal.  In one-shot mode every symbol evaluated for it is skipped, its
\* series being non-empty, while the other intervals are scanned as usual;
\* in continuous mode its loop exits before it scans anything, the loops of
\* the other intervals keep running, and Start does not return while one of
\* them runs.
C37_RejectedLabelGivesNothing ==
    /\ \A k \in 1..NumIntervals : ~Parses(k) =>
          /\ isignals[k] = <<>>
          /\ \A s \in 1..NumSymbols :
                /\ tsig[<<k, s>>] = <<>>
                /\ Market(s, config.EnabledIntervals[k]) # <<>>
                /\ CandlesAsked(k, s) => <<k, s>> \in failed
          /\ \A i \in 1..Len(sent) : sent[i].interval # config.EnabledIntervals[k]
          /\ ~config.RunOnce =>
                /\ callerPc[k] \in {"idle", "loop", "exited"}
                /\ symbolCalls[k] = 0
                /\ ipc[k] = "new"
                /\ \A s \in 1..NumSymbols : tpc[<<k, s>>] = "new"
    /\ \A j \in 1..NumIntervals : Parses(j) =>
          /\ callerPc[j] # "exited"
          /\ ipc[j] \in {"returned", "done"} =>
                SeqToBag(isignals[j]) = BagOfSymbols(j, (1..NumSymbols) \ FailedOf(j))
          /\ ~config.RunOnce /\ Running(j) => ENABLED LoopStep(j)
    /\ (~config.RunOnce /\ \E j \in 1..NumIntervals : Parses(j)) => ~StartReturned

\* continuous mode with the labels "7x" and "1w": the loop of "7x" has exited
\* without a scan and the loop of "1w" has gone through its whole scan
C37_Witness ==
    /\ ~config.RunOnce
    /\ \E k, j \in 1..NumIntervals :
          /\ ~Parses(k)
          /\ callerPc[k] = "exited"
          /\ Parses(j)
          /\ callerPc[j] = "done"
          /\ callerRet[j] = "nil"
          /\ \A s \in 1..NumSymbols : tpc[<<j, s>>] = "done"

(***************************************************************************)
(* The cache of the symbol list.                                           *)
(***************************************************************************)
AllGot == \A g \in GetCallers : gpc[g] = "returned"

\* the calls that found the cache empty or expired under the read lock
Missed == {g \in GetCallers : gret[g].how \in {"rechecked", "fetched", "error"}}

\* the remote fetches that cached a list that is not empty
Cached == {i \in 1..Len(fetchLog) : fetchLog[i].ok /\ fetchLog[i].symbols # <<>>}

\* a fetch runs under the write lock, one at a time
FetchUnderWriteLock ==
    /\ client.writer # 0 => client.readers = {}
    /\ \A g \in GetCallers :
          /\ gpc[g] \in {"recheck", "fetching"} <=> client.writer = g
          /\ gpc[g] = "check" <=> g \in client.readers
    /\ Cardinality({g \in GetCallers : gpc[g] = "fetching"}) <= 1

\* a failed fetch leaves cachedSymbols and lastSymbolsUpdate as they were
FailedFetchKeepsCache ==
    \A i \in 1..Len(fetchLog) : ~fetchLog[i].ok => fetchLog[i].after = fetchLog[i].before

\* no fetch is made while a non-empty list younger than 24 hours is cached,
\* and such a list is what a call returns
FreshCacheReturned ==
    /\ \A i \in 1..Len(fetchLog) : ~fetchLog[i].fresh
    /\ \A g \in GetCallers :
          gret[g].how \in {"cached", "rechecked"} =>
             /\ ~gret[g].err
             /\ gret[g].symbols # <<>>
             /\ \A i \in 1..Len(fetchLog) : fetchLog[i].by # g
             /\ \/ \E c \in InitialCaches : gret[g].symbols = c.cachedSymbols
                \/ \E i \in Cached : gret[g].symbols = fetchLog[i].symbols

\* C38 as stated: of the calls that meet an empty or expired cache exactly
\* one makes the remote fetch, under the write lock, and the others return
\* the list it cached; a failed fetch leaves the cache as it was and a fresh
\* list is returned without a fetch.
C38_ExactlyOneFetches ==
    /\ FetchUnderWriteLock
    /\ FailedFetchKeepsCache
    /\ FreshCacheReturned
    /\ AllGot /\ Missed # {} =>
          /\ Len(fetchLog) = 1
          /\ \A g \in Missed \ {fetchLog[1].by} :
                /\ gret[g].how = "rechecked"
                /\ gret[g].symbols = fetchLog[1].symbols

\* C38, amended: of the calls that meet an empty or expired cache at most
\* one at a time makes the remote fetch, under the write lock; a call that
\* finds a fresh list under the write lock returns the list another call's
\* fetch has cached, and once a fetch has cached a list that is not empty no
\* further fetch is made within 24 hours, whereas after a failed fetch or an
\* empty list the next call fetches again; a failed fetch leaves the cache
\* as it was and a fresh list is returned without a fetch.
C38_OneFetchAtATime ==
    /\ FetchUnderWriteLock
    /\ FailedFetchKeepsCache
    /\ FreshCacheReturned
    /\ \A i \in 1..Len(fetchLog) :
          /\ \A j \in Cached : j < i => fetchLog[i].after[2] - fetchLog[j].after[2] >= CacheTTL
          /\ fetchLog[i].ok => fetchLog[i].after[1] = fetchLog[i].symbols
    /\ \A g \in GetCallers :
          /\ gret[g].how = "rechecked" =>
                \E i \in Cached : /\ fetchLog[i].by # g
                                  /\ gret[g].symbols = fetchLog[i].symbols
          /\ gret[g].how = "fetched" =>
                \E i \in 1..Len(fetchLog) : /\ fetchLog[i].by = g
                                            /\ fetchLog[i].ok
                                            /\ gret[g].symbols = fetchLog[i].symbols
          /\ gret[g].how = "error" =>
                /\ gret[g].err
                /\ \E i \in 1..Len(fetchLog) : fetchLog[i].by = g /\ ~fetchLog[i].ok
    /\ AllGot /\ Missed # {} /\ Cached = {} =>
          {fetchLog[i].by : i \in 1..Len(fetchLog)} = Missed

\* two calls met an empty or expired cache: one fetched a list, the other
\* waited for the write lock and returned that list without a fetch
C38_Witness ==
    /\ AllGot
    /\ Len(fetchLog) = 1
    /\ \E g, h \in Missed :
          /\ gret[g].how = "fetched"
          /\ gret[g].symbols # <<>>
          /\ gret[h].how = "rechecked"
          /\ gret[h].symbols = gret[g].symbols

(***************************************************************************)
(* The retries of a request.                                               *)
(***************************************************************************)
Returned == retry.pc = "returned"

\* the attempts made so far
Attempts == Len(retry.tries)

\* every attempt but the last one failed
OnlyLastMayRespond == \A j \in 1..(Attempts - 1) : retry.tries[j] \in DoErrors

AttemptsBounded ==
    /\ Attempts <= maxRetries
    /\ OnlyLastMayRespond
    /\ ~Returned => \A j \in 1..Attempts : retry.tries[j] \in DoErrors
    /\ Returned =>
          \/ /\ retry.resp \in Responses
             /\ retry.err = "nil"
             /\ Last(retry.tries) = retry.resp
          \/ /\ retry.resp = "nil"
             /\ retry.err \in DoErrors
             /\ Attempts = maxRetries
             /\ \A j \in 1..Attempts : retry.tries[j] \in DoErrors
             /\ retry.err = Last(retry.tries)

\* C39: doRequestWithRetry calls client.Do at most 3 times for a request,
\* returns the first response it gets without another attempt, returns an
\* error only after 3 attempts have failed in a row, and always returns.
C39_AtMostThreeAttempts == []AttemptsBounded /\ <>Returned

\* two attempts failed and the third got a response, which was returned
C39_Witness ==
    /\ Returned
    /\ Attempts = maxRetries
    /\ retry.resp \in Responses
    /\ \A j \in 1..(Attempts - 1) : retry.tries[j] \in DoErrors

=============================================================================
